---- MODULE Spec2Model ----
(***************************************************************************)
(* A model of the BitTorrent client Kaykos/codecrafters-bittorrent-go.     *)
(*                                                                         *)
(* Modelled here: the piece download engine (downloadFile and              *)
(* downloadPieceToFile in torrent.go, getPieceFromPeer, handshake), the    *)
(* peer sessions of messaging.go (newPeerConnection, sendMessage,          *)
(* receivePeerMessage) and the remote peers the sessions talk to.          *)
(* Taken on their own, each under a specification of its own: the block    *)
(* loop of getPieceFromPeer (SpecBlocks), receivePeerMessage on a stream   *)
(* of frames (SpecRecv), and bencode.go with parseTorrentFile's infohash   *)
(* (SpecBencode).                                                          *)
(*                                                                         *)
(* Abstractions, all stated where they are used:                           *)
(*  - bytes are not modelled one by one: a block payload is the pair       *)
(*    <<off, len>> of the file offset whose bytes it carries (off = -1     *)
(*    for bytes that are not the file's) and its length; SHA-1 is          *)
(*    collision free, hence the identity on such payload sequences;        *)
(*  - a receive takes one whole message from the session's stream;         *)
(*  - a remote peer reacts to a message the moment it is written, so the   *)
(*    stream of a session holds the peer's answers in the order TCP        *)
(*    delivers them; a receive on an empty stream blocks.                  *)
(***************************************************************************)
EXTENDS Integers, Sequences, FiniteSets, TLC

(***************************************************************************)
(* Program constants.                                                      *)
(***************************************************************************)
UNCHOKE == 1
INTERESTED == 2
BITFIELD == 5
REQUEST == 6
PIECE == 7
HANDSHAKE_MESSAGE_LENGTH == 68
\* blockSize := 16_384 in getPieceFromPeer
BlockSize == 16384
\* piece.payload[8:]: index and begin take the first 8 bytes of a PIECE payload
PieceHeaderLength == 8

(***************************************************************************)
(* Bounds of the model.                                                    *)
(***************************************************************************)
\* number of peer endpoints the tracker returned
NumPeers == 2
\* number of those peers that misbehave (refuse, hang up, corrupt, truncate)
MaxFaulty == 1

\* piece lengths tried on the block loop: up to MaxBlocks full blocks, give or
\* take Spread bytes
MaxBlocks == 3
Spread == 6

Peers == 1..NumPeers
Kinds == {"good", "refuse", "mute", "corrupt", "short"}

\* integer form of int(math.Ceil(float64(a) / float64(b))), a >= 0, b > 0
CeilDiv(a, b) == (a + b - 1) \div b

\* A well-formed single-file torrent: nPieces = len(pieces)/20 = ceil(length/pieceLength)
TorrentOf(len, plen) ==
    [length |-> len, pieceLength |-> plen, nPieces |-> CeilDiv(len, plen)]

\* The torrents downloaded: of one piece and of two, with a short last piece
\* and with a length that is an exact multiple of the piece length, with
\* pieces of one block and of two.
Torrents ==
    { TorrentOf(5, 16384),
      TorrentOf(16384, 16384),
      TorrentOf(16384 + 5, 16384),
      TorrentOf(2 * 16384, 16384),
      TorrentOf(32768 + 7232, 32768) }

\* a nil connection, an endpoint not picked yet, bytes never written
NoSession == 0 - 1
NoPeer == 0
Zeros == <<0 - 2, 0>>

VARIABLES
    mode,        \* "file": downloadFile, "piece": downloadPieceToFile
    torrent,     \* the torrent t the methods are called on, fixed
    kind,        \* how each peer endpoint behaves, fixed
    pc,          \* position of each piece task
    address,     \* local of a task: the endpoint picked
    ok,          \* local of a task: connections[address] was present
    conn,        \* local of a task: the session it uses (NoSession: nil)
    connections, \* the shared map endpoint -> session
    closerArr,   \* backing array of closerFuncs
    closerLen,   \* len(closerFuncs)
    clen,        \* local of a task: len(closerFuncs) read by its append
    sock,        \* per session: "none", "open", "closed" (our end)
    pstate,      \* per session: the remote peer's state
    inbox,       \* per session: what the peer sent and nobody received yet
    rd,          \* per task: the receiveBytes call it is in, what it has read so far
    plen,        \* local of getPieceFromPeer: pieceLength
    i,           \* local of getPieceFromPeer: block loop counter
    pieceData,   \* local of getPieceFromPeer / of the task: the piece buffer
    fileData,    \* the shared output buffer, per block slot
    wg,          \* the WaitGroup counter
    mainPc,      \* position of the calling goroutine
    outFile,     \* the output file: whether it was written, and its content
    fatal,       \* "" or the panic / fatal error that ends the process
    exited       \* the runtime has ended the process

\* The state of a download
engineVars == <<mode, torrent, kind, pc, address, ok, conn, connections, closerArr,
                closerLen, clen, sock, pstate, inbox, rd, plen, i, pieceData,
                fileData, wg, mainPc, outFile, fatal, exited>>

\* The state of one call of a function taken on its own
VARIABLES
    phase,          \* position in the call: "idle" when no such call is made
    blkPieceIndex,  \* getPieceFromPeer's block loop: pieceIndex
    blkPieceLength, \* ... pieceLength
    blkI,           \* ... the loop counter i
    blkRequests,    \* ... the REQUEST messages sent so far
    rcvStream,      \* receivePeerMessage: frames the connection still holds
    rcvMsg,         \* ... the peerMessage returned last
    rcvErr,         \* ... "", the error returned, or the panic raised
    bencInput,      \* decodeValue: bencodedString
    bencOrder,      \* the order in which range yields the keys of a map
    bencDecoded,    \* decodeValue: what it returned
    bencOutput,     \* bencodeValue: the string returned
    bencInfoHash    \* parseTorrentFile: t.infoHash

blockVars == <<blkPieceIndex, blkPieceLength, blkI, blkRequests>>
recvVars == <<rcvStream, rcvMsg, rcvErr>>
bencVars == <<bencInput, bencOrder, bencDecoded, bencOutput, bencInfoHash>>

\* The state of a torrent descriptor being built, of magnetInfo, and of
\* buildPeerAddresses
VARIABLES
    link,           \* parseMagnetLink: the query parameters of the link
    parsed,         \* parseTorrentFile / parseMagnetLink: the torrent t returned
    parseErr,       \* ... "", "error" for the error returned, "panic"
    hsMessage,      \* t.handshake: the message built and sent
    hsCall,         \* peerHandshake / magnetHandshake: the session, what was returned
    mgPeer,         \* magnetInfo: what the tracker and the peer do
    mgLink,         \* ... the torrent *t when magnetInfo is called
    mgTorrent,      \* ... the torrent *t
    mgLog,          \* ... the messages sent and received so far, in order
    mgResp,         \* ... locals: handshakeResponse, peerMetadataExtensionId
    mgData,         \* ... local dataMessage
    mgErr,          \* ... "", "error" for the error returned, "panic"
    peersStr,       \* buildPeerAddresses: peersStr
    peerAddresses,  \* ... the addresses returned
    trackerRes,     \* t.peers: what the tracker does with the request
    peersRet,       \* downloadFile / downloadPieceToFile: what t.peers() returned
    startPc         \* ... "idle", "peers" before t.peers() is called, "started" after

descVars == <<link, parsed, parseErr, hsMessage, hsCall>>
magnetVars == <<mgPeer, mgLink, mgTorrent, mgLog, mgResp, mgData, mgErr>>
addrVars == <<peersStr, peerAddresses>>
startVars == <<trackerRes, peersRet, startPc>>
moreVars == <<descVars, magnetVars, addrVars, startVars>>

callVars == <<phase, blockVars, recvVars, bencVars, moreVars>>

vars == <<engineVars, callVars>>

Tasks == DOMAIN pc
Sessions == DOMAIN sock

(***************************************************************************)
(* getPieceFromPeer's arithmetic.                                          *)
(***************************************************************************)
\* pieceLength of piece p: t.info.pieceLength, and for the last piece
\* t.info.length % t.info.pieceLength
PieceLengthFor(tor, p) ==
    IF p = tor.nPieces - 1 THEN tor.length % tor.pieceLength ELSE tor.pieceLength

\* nBlocks := int(math.Ceil(float64(pieceLength) / float64(blockSize)))
NBlocks(pl) == CeilDiv(pl, BlockSize)

\* The remainder forgotten: every block of full size
BlockLengthFull(pl, k) == BlockSize

\* blockLength of block k of a piece of pl bytes
BlockLength(pl, k) ==
    IF k = NBlocks(pl) - 1 THEN pl - k * BlockSize ELSE BlockSize

(***************************************************************************)
(* The file behind the torrent and its piece hashes.                       *)
(***************************************************************************)
\* Number of bytes of piece p in the file the torrent was made from
TruePieceLen(tor, p) ==
    IF (p + 1) * tor.pieceLength <= tor.length
    THEN tor.pieceLength
    ELSE tor.length - p * tor.pieceLength

\* The bytes of piece p of that file, as block payloads <<off, len>>
TruePiece(tor, p) ==
    [k \in 1..CeilDiv(TruePieceLen(tor, p), BlockSize) |->
        << p * tor.pieceLength + (k - 1) * BlockSize,
           IF k * BlockSize <= TruePieceLen(tor, p)
           THEN BlockSize
           ELSE TruePieceLen(tor, p) - (k - 1) * BlockSize >> ]

\* sha1.New(); h.Write(data); h.Sum(nil): collision free
SHA1(data) == <<"sha1", data>>

\* hex.EncodeToString: injective
toHex(b) == <<"hex", b>>

\* t.info.pieces[p]: the 20-byte chunk p of the metainfo's pieces string
PieceHash(tor, p) == SHA1(TruePiece(tor, p))

\* The comparison left out: every piece passes
HashesMatchAlways(tor, p, data) == TRUE

\* expectedHash != writtenPieceHash, negated
HashesMatch(tor, p, data) == toHex(PieceHash(tor, p)) = toHex(SHA1(data))

(***************************************************************************)
(* Messages.                                                               *)
(***************************************************************************)
buildHandshakeMessage == [framed |-> FALSE, mType |-> 0]
buildInterestedMessage == [framed |-> TRUE, mType |-> INTERESTED]
buildRequestMessage(pieceIndex, begin, blockLength) ==
    [framed |-> TRUE, mType |-> REQUEST, index |-> pieceIndex, begin |-> begin,
     length |-> blockLength]

\* What a peer sends: the 68 handshake bytes, then framed messages
\* (paylen = len(payload), off = the file offset of the block carried)
Incoming(framed, mType, index, begin, paylen, off) ==
    [framed |-> framed, mType |-> mType, index |-> index, begin |-> begin,
     paylen |-> paylen, off |-> off]
HandshakeReply == Incoming(FALSE, 0, 0, 0, HANDSHAKE_MESSAGE_LENGTH, 0)
BitfieldMsg == Incoming(TRUE, BITFIELD, 0, 0, 1, 0)
UnchokeMsg == Incoming(TRUE, UNCHOKE, 0, 0, 0, 0)
PieceMsg(k, tor, req) ==
    Incoming(TRUE, PIECE, req.index, req.begin,
             IF k = "short" THEN 4 ELSE PieceHeaderLength + req.length,
             IF k = "corrupt" THEN 0 - 1 ELSE req.index * tor.pieceLength + req.begin)

(***************************************************************************)
(* The remote peer of a session: its state after a message of ours, and    *)
(* what it sends back.                                                     *)
(***************************************************************************)
PeerReact(k, tor, st, m) ==
    CASE st = "gone" -> [st |-> "gone", out |-> <<>>]
      [] st = "new" /\ ~m.framed /\ k # "mute" ->
            [st |-> "choking", out |-> <<HandshakeReply, BitfieldMsg>>]
      [] st = "new" -> [st |-> "gone", out |-> <<>>]
      [] m.framed /\ m.mType = INTERESTED ->
            [st |-> "unchoked", out |-> IF st = "choking" THEN <<UnchokeMsg>> ELSE <<>>]
      [] m.framed /\ m.mType = REQUEST /\ st = "unchoked" ->
            [st |-> st, out |-> <<PieceMsg(k, tor, m)>>]
      [] OTHER -> [st |-> st, out |-> <<>>]


(***************************************************************************)
(* The bytes of a connection. A run is n bytes in a row: of tag "b" each   *)
(* of value v, of tag "data" the bytes of the file from offset v on, of    *)
(* tag "junk" bytes that are not those of the file, of tags "ih" and "id"  *)
(* the bytes of an infohash and of a peer id from their byte v on.         *)
(***************************************************************************)
Run(tag, v, n) == [tag |-> tag, v |-> v, n |-> n]
Bytes(b) == Run("b", b, Len(b))

\* Two stretches of a stream one after the other: bytes that follow bytes
\* make one run, and so do two parts of one payload
Join(a, b) ==
    IF a = <<>> THEN b
    ELSE IF b = <<>> THEN a
    ELSE IF a[Len(a)].tag = "b" /\ b[1].tag = "b"
    THEN SubSeq(a, 1, Len(a) - 1) \o <<Bytes(a[Len(a)].v \o b[1].v)>> \o Tail(b)
    ELSE IF /\ a[Len(a)].tag # "b" /\ a[Len(a)].tag = b[1].tag
            /\ a[Len(a)].v + a[Len(a)].n = b[1].v
    THEN SubSeq(a, 1, Len(a) - 1) \o <<[b[1] EXCEPT !.v = a[Len(a)].v,
                                                   !.n = @ + a[Len(a)].n]>> \o Tail(b)
    ELSE a \o b

\* binary.BigEndian.PutUint32
Uint32Bytes(x) ==
    <<x \div 16777216, (x \div 65536) % 256, (x \div 256) % 256, x % 256>>

\* "BitTorrent protocol"
PstrCodes ==
    <<66, 105, 116, 84, 111, 114, 114, 101, 110, 116, 32, 112, 114, 111, 116, 111, 99,
      111, 108>>

\* The 68 bytes a peer answers the handshake with: 19, the protocol string,
\* 8 reserved bytes, the infohash, its peer id
HandshakeReplyBytes ==
    <<Bytes(<<Len(PstrCodes)>> \o PstrCodes \o [k \in 1..8 |-> 0]),
      Run("ih", 0, 20), Run("id", 0, 20)>>

\* The payload of a framed message of a peer
PayloadBytes(m) ==
    CASE m.mType = BITFIELD -> <<Bytes(<<255>>)>>
      [] m.mType = PIECE /\ m.paylen >= PieceHeaderLength ->
            <<Bytes(Uint32Bytes(m.index) \o Uint32Bytes(m.begin))>>
                \o IF m.paylen = PieceHeaderLength THEN <<>>
                   ELSE IF m.off < 0 THEN <<Run("junk", 0, m.paylen - PieceHeaderLength)>>
                   ELSE <<Run("data", m.off, m.paylen - PieceHeaderLength)>>
      [] m.mType = PIECE /\ m.paylen > 0 ->
            <<Bytes(SubSeq(Uint32Bytes(m.index), 1, m.paylen))>>
      [] OTHER -> <<>>

\* What a peer writes for a message: the handshake as it is, a framed message
\* as length prefix (1 + len(payload)), type byte, payload
Encode(m) ==
    IF ~m.framed THEN HandshakeReplyBytes
    ELSE Join(<<Bytes(Uint32Bytes(1 + m.paylen) \o <<m.mType>>)>>, PayloadBytes(m))

RECURSIVE EncodeAll(_)
EncodeAll(ms) == IF ms = <<>> THEN <<>> ELSE Join(Encode(Head(ms)), EncodeAll(Tail(ms)))

\* Number of bytes in runs
RECURSIVE Size(_)
Size(runs) == IF runs = <<>> THEN 0 ELSE Head(runs).n + Size(Tail(runs))

\* The first k bytes of a run, and what is behind them
FirstOf(h, k) == IF h.tag = "b" THEN Bytes(SubSeq(h.v, 1, k)) ELSE [h EXCEPT !.n = k]
BehindOf(h, k) ==
    IF h.tag = "b" THEN Bytes(SubSeq(h.v, k + 1, h.n))
    ELSE [h EXCEPT !.n = @ - k, !.v = @ + k]

\* The first k bytes of runs (all of them when there are fewer)
RECURSIVE Taken(_, _)
Taken(runs, k) ==
    IF k <= 0 \/ runs = <<>> THEN <<>>
    ELSE IF Head(runs).n <= k
    THEN <<Head(runs)>> \o Taken(Tail(runs), k - Head(runs).n)
    ELSE <<FirstOf(Head(runs), k)>>

\* What is left of runs behind its first k bytes
RECURSIVE Rest(_, _)
Rest(runs, k) ==
    IF k <= 0 \/ runs = <<>> THEN runs
    ELSE IF Head(runs).n <= k
    THEN Rest(Tail(runs), k - Head(runs).n)
    ELSE <<BehindOf(Head(runs), k)>> \o Tail(runs)

\* One read of up to k bytes: what it takes off the stream and what stays
Take(runs, k) == [taken |-> Taken(runs, k), rest |-> Rest(runs, k)]

\* The value of byte j of runs, counted from 0; Unknown when it is no byte
\* of a header
Unknown == 0 - 1
RECURSIVE ByteAt(_, _)
ByteAt(runs, j) ==
    IF runs = <<>> THEN Unknown
    ELSE IF j < Head(runs).n
         THEN IF Head(runs).tag = "b" THEN Head(runs).v[j + 1] ELSE Unknown
         ELSE ByteAt(Tail(runs), j - Head(runs).n)

\* binary.BigEndian.Uint32 of four bytes. A value of 2^31 or more is kept as
\* 2^31 - 1: either is more than a peer ever sends on a connection
Uint32(runs) ==
    IF \E j \in 0..3 : ByteAt(runs, j) = Unknown THEN Unknown
    ELSE IF ByteAt(runs, 0) >= 128 THEN 2147483647
    ELSE ((ByteAt(runs, 0) * 256 + ByteAt(runs, 1)) * 256 + ByteAt(runs, 2)) * 256
            + ByteAt(runs, 3)

\* The lengths four bytes can stand for: their value, any when they are not
\* bytes of a header (no length, a short one, the longest)
Lengths(runs) ==
    IF Uint32(runs) = Unknown THEN {0, 1, 2147483647} ELSE {Uint32(runs)}

\* newPeerMessage(b) for a b that is not empty: mType = b[0], payload = b[1:]
peerMessage(b) ==
    [mType |-> ByteAt(b, 0), paylen |-> Size(b) - 1, payload |-> Take(b, 1).rest]

\* The index and begin of a piece message, payload[0:4] and payload[4:8]
PieceIndexOf(m) == Uint32(Take(m.payload, 4).taken)
PieceBeginOf(m) == Uint32(Take(Take(m.payload, 4).rest, 4).taken)

\* piece.payload[8:] as a block of a piece buffer: the offset in the file of
\* the bytes carried (-1 when they are not bytes of the file in a row) and
\* their number
BlockOf(m) ==
    LET block == Take(m.payload, PieceHeaderLength).rest IN
    IF Len(block) = 1 /\ block[1].tag = "data" THEN <<block[1].v, block[1].n>>
    ELSE <<0 - 1, Size(block)>>

(***************************************************************************)
(* Sessions: writes and reads on the connection of session s.              *)
(***************************************************************************)
\* pc.connection.Write(bytes) reaching the peer: the peer reacts, and what
\* it writes is there to be read
Deliver(s, m) ==
    LET r == PeerReact(kind[address[s]], torrent, pstate[s], m) IN
    /\ pstate' = [pstate EXCEPT ![s] = r.st]
    /\ inbox' = [inbox EXCEPT ![s] = Join(@, EncodeAll(r.out))]

\* The errors a Write can return: none while the peer is there; once it hung
\* up the write fails or is still accepted by the local stack
WriteErrors(s) == IF pstate[s] = "gone" THEN BOOLEAN ELSE {FALSE}

\* No receiveBytes call is under way
NoRead == [stage |-> "idle", want |-> 0, buf |-> <<>>]

\* The receiveBytes call task p is in: the one under way, or the one it is
\* about to start for `size` bytes
Reading(p, stage, size) ==
    IF rd[p].stage = "idle" THEN [stage |-> stage, want |-> size, buf |-> <<>>]
    ELSE rd[p]

\* conn.Read returns: with bytes, or with io.EOF once the peer hung up and
\* everything it wrote has been read. Otherwise the call does not return
CanRead(s) == inbox[s] # <<>> \/ pstate[s] = "gone"
EndOfStream(s) == inbox[s] = <<>>

\* One conn.Read inside io.ReadFull (receiveBytes 47): the bytes that are
\* there, up to the number still wanted, go to the buffer of the call
ReadInto(cur, s) ==
    [cur EXCEPT !.want = @ - Size(Take(inbox[s], cur.want).taken),
                !.buf = Join(@, Take(inbox[s], cur.want).taken)]

\* The stream of p's session after that read
ReadFrom(p, cur) ==
    inbox' = [inbox EXCEPT ![conn[p]] = Take(@, cur.want).rest]

\* receivePeerMessage 56-71, one conn.Read further, when the four bytes of a
\* prefix stand for length: "eof" (an error is returned), "more" (the call
\* goes on: bytes are missing, or the prefix is complete and receiveBytes of
\* line 66 comes next), "panic" (newPeerMessage on an empty buffer), "msg"
Receive(p, length) ==
    LET cur == Reading(p, "len", 4)
        nxt == ReadInto(cur, conn[p])
    IN  CASE EndOfStream(conn[p]) -> [out |-> "eof", rd |-> NoRead]
          [] nxt.want > 0 -> [out |-> "more", rd |-> nxt]
          [] cur.stage = "len" /\ length = 0 -> [out |-> "panic", rd |-> NoRead]
          [] cur.stage = "len" ->
                [out |-> "more", rd |-> [stage |-> "body", want |-> length, buf |-> <<>>]]
          [] OTHER -> [out |-> "msg", rd |-> NoRead, msg |-> peerMessage(nxt.buf)]

\* The lengths the prefix read by this conn.Read can stand for
PrefixLengths(p) == Lengths(ReadInto(Reading(p, "len", 4), conn[p]).buf)

(***************************************************************************)
(* getPieceFromPeer: entry into the block loop, and its error returns.     *)
(***************************************************************************)
\* Lines 378-394: compute pieceLength and nBlocks, allocate the buffer; with
\* no block to request the function returns the empty buffer at once
EnterLoop(p) ==
    /\ plen' = [plen EXCEPT ![p] = PieceLengthFor(torrent, p)]
    /\ i' = [i EXCEPT ![p] = 0]
    /\ pieceData' = [pieceData EXCEPT ![p] = <<>>]
    /\ pc' = [pc EXCEPT ![p] =
                IF NBlocks(PieceLengthFor(torrent, p)) > 0 THEN "request" ELSE "verify"]

\* return nil, err: downloadFile's task prints and returns (wg.Done runs),
\* downloadPieceToFile ignores err and goes on with pieceData = nil
GetPieceFailed(p) ==
    /\ pieceData' = [pieceData EXCEPT ![p] = <<>>]
    /\ pc' = [pc EXCEPT ![p] = IF mode = "file" THEN "done" ELSE "verify"]
    /\ wg' = IF mode = "file" THEN wg - 1 ELSE wg

\* The process has not ended
Alive == ~exited

\* An unrecovered panic in the goroutine of task p: its deferred calls run
\* (wg.Done of downloadFile 509, the closer of downloadPieceToFile 444) and
\* the goroutine is gone; the runtime then prints the panic and ends the
\* process, while the other goroutines run on
Panics(p, msg) ==
    /\ fatal' = (IF fatal = "" THEN msg ELSE fatal)
    /\ exited' = exited
    /\ pc' = [pc EXCEPT ![p] = "panicked"]
    /\ wg' = IF mode = "file" THEN wg - 1 ELSE wg
    /\ sock' = [s \in DOMAIN sock |->
                  IF mode = "piece" /\ s = conn[p] THEN "closed" ELSE sock[s]]

\* The runtime ends the process after a panic or a fatal error
Exit ==
    /\ Alive /\ fatal # ""
    /\ exited' = TRUE
    /\ UNCHANGED <<callVars, mode, torrent, kind, pc, address, ok, conn, connections, closerArr,
                   closerLen, clen, sock, pstate, inbox, rd, plen, i, pieceData, fileData,
                   wg, mainPc, outFile, fatal>>

(***************************************************************************)
(* The piece task of downloadFile, and downloadPieceToFile.                *)
(***************************************************************************)
\* downloadFile 511-514: pick a peer at random and look it up in connections;
\* on a hit getPieceFromPeer is entered with waitInitialMessages = false
Lookup(p) ==
    /\ mode = "file" /\ Alive /\ pc[p] = "start"
    /\ \E a \in Peers :
        /\ address' = [address EXCEPT ![p] = a]
        /\ ok' = [ok EXCEPT ![p] = connections[a] # NoSession]
        /\ conn' = [conn EXCEPT ![p] = connections[a]]
        /\ IF connections[a] # NoSession
           THEN EnterLoop(p)
           ELSE /\ pc' = [pc EXCEPT ![p] = "dial"]
                /\ UNCHANGED <<plen, i, pieceData>>
    /\ UNCHANGED <<callVars, mode, torrent, kind, connections, closerArr, closerLen, clen, sock,
                   pstate, inbox, rd, fileData, wg, mainPc, outFile, fatal, exited>>

\* downloadPieceToFile 438: pick a peer at random
PickPeer(p) ==
    /\ mode = "piece" /\ Alive /\ pc[p] = "start"
    /\ \E a \in Peers : address' = [address EXCEPT ![p] = a]
    /\ pc' = [pc EXCEPT ![p] = "dial"]
    /\ UNCHANGED <<callVars, mode, torrent, kind, ok, conn, connections, closerArr, closerLen, clen,
                   sock, pstate, inbox, rd, plen, i, pieceData, fileData, wg, mainPc,
                   outFile, fatal, exited>>

\* newPeerConnection(address). A failed dial returns a nil connection:
\* downloadFile's task prints and returns, downloadPieceToFile prints and
\* goes on with conn = nil and the closer deferred.
Dial(p) ==
    /\ Alive /\ pc[p] = "dial"
    /\ IF kind[address[p]] = "refuse"
       THEN /\ conn' = [conn EXCEPT ![p] = NoSession]
            /\ pc' = [pc EXCEPT ![p] = IF mode = "file" THEN "done" ELSE "hs_send"]
            /\ wg' = IF mode = "file" THEN wg - 1 ELSE wg
            /\ UNCHANGED <<sock, pstate>>
       ELSE /\ conn' = [conn EXCEPT ![p] = p]
            /\ sock' = [sock EXCEPT ![p] = "open"]
            /\ pstate' = [pstate EXCEPT ![p] = "new"]
            /\ pc' = [pc EXCEPT ![p] = IF mode = "file" THEN "insert" ELSE "hs_send"]
            /\ UNCHANGED wg
    /\ UNCHANGED <<callVars, mode, torrent, kind, address, ok, connections, closerArr, closerLen,
                   clen, inbox, rd, plen, i, pieceData, fileData, mainPc, outFile,
                   fatal, exited>>

\* downloadFile 522: connections[address] = conn
Insert(p) ==
    /\ Alive /\ pc[p] = "insert"
    /\ connections' = [connections EXCEPT ![address[p]] = conn[p]]
    /\ pc' = [pc EXCEPT ![p] = "closer_read"]
    /\ UNCHANGED <<callVars, mode, torrent, kind, address, ok, conn, closerArr, closerLen, clen,
                   sock, pstate, inbox, rd, plen, i, pieceData, fileData, wg, mainPc,
                   outFile, fatal, exited>>

\* The Go runtime may end the process when a goroutine at the map sees it
\* written while another goroutine reads or writes it: "fatal error:
\* concurrent map writes", "concurrent map read and map write". The throw
\* stops that goroutine and runs no deferred call; the others run on until
\* the process is gone
MapAccessesRace ==
    \E p \in Tasks, q \in Tasks :
        p # q /\ pc[p] = "insert" /\ pc[q] \in {"start", "insert"}

MapRaceFatal ==
    /\ mode = "file" /\ Alive
    /\ MapAccessesRace
    /\ \E d \in Tasks :
        /\ \/ pc[d] = "insert" /\ \E q \in Tasks \ {d} : pc[q] \in {"start", "insert"}
           \/ pc[d] = "start" /\ \E q \in Tasks \ {d} : pc[q] = "insert"
        /\ pc' = [pc EXCEPT ![d] = "crashed"]
    /\ fatal' = (IF fatal = "" THEN "fatal error: concurrent map access" ELSE fatal)
    /\ exited' = exited
    /\ UNCHANGED <<callVars, mode, torrent, kind, address, ok, conn, connections, closerArr,
                   closerLen, clen, sock, pstate, inbox, rd, plen, i, pieceData,
                   fileData, wg, mainPc, outFile>>

\* downloadFile 524, closerFuncs = append(closerFuncs, closer): the slice
\* header is read ...
CloserRead(p) ==
    /\ Alive /\ pc[p] = "closer_read"
    /\ clen' = [clen EXCEPT ![p] = closerLen]
    /\ pc' = [pc EXCEPT ![p] = "closer_write"]
    /\ UNCHANGED <<callVars, mode, torrent, kind, address, ok, conn, connections, closerArr,
                   closerLen, sock, pstate, inbox, rd, plen, i, pieceData, fileData,
                   wg, mainPc, outFile, fatal, exited>>

\* ... and the element and the new header are written, with no lock held
CloserWrite(p) ==
    /\ Alive /\ pc[p] = "closer_write"
    /\ closerArr' = [closerArr EXCEPT ![clen[p] + 1] = conn[p]]
    /\ closerLen' = clen[p] + 1
    /\ pc' = [pc EXCEPT ![p] = "hs_send"]
    /\ UNCHANGED <<callVars, mode, torrent, kind, address, ok, conn, connections, clen, sock,
                   pstate, inbox, rd, plen, i, pieceData, fileData, wg, mainPc,
                   outFile, fatal, exited>>

\* t.handshake 161-169: send the 68 bytes. A nil conn is dereferenced by
\* sendBytes. An error is printed by both callers, which go on to
\* getPieceFromPeer(conn, pieceIndex, true).
HandshakeSend(p) ==
    /\ Alive /\ pc[p] = "hs_send"
    /\ IF conn[p] = NoSession
       THEN /\ Panics(p, "panic: nil pointer dereference")
            /\ UNCHANGED <<pstate, inbox>>
       ELSE /\ \E err \in WriteErrors(conn[p]) :
                IF err
                THEN /\ pc' = [pc EXCEPT ![p] = "bitfield"]
                     /\ UNCHANGED <<pstate, inbox>>
                ELSE /\ pc' = [pc EXCEPT ![p] = "hs_recv"]
                     /\ Deliver(conn[p], buildHandshakeMessage)
            /\ UNCHANGED <<fatal, exited, wg, sock>>
    /\ UNCHANGED <<callVars, mode, torrent, kind, address, ok, conn, connections, closerArr,
                   closerLen, clen, rd, plen, i, pieceData, fileData, mainPc, outFile>>

\* t.handshake 172-177: receiveBytes(68), one conn.Read of it; the response
\* is not inspected, and an error is printed by the callers, which go on
HandshakeRecv(p) ==
    /\ Alive /\ pc[p] = "hs_recv"
    /\ CanRead(conn[p])
    /\ LET cur == Reading(p, "hs", HANDSHAKE_MESSAGE_LENGTH)
           nxt == ReadInto(cur, conn[p])
       IN  /\ ReadFrom(p, cur)
           /\ IF ~EndOfStream(conn[p]) /\ nxt.want > 0
              THEN /\ rd' = [rd EXCEPT ![p] = nxt]
                   /\ UNCHANGED pc
              ELSE /\ rd' = [rd EXCEPT ![p] = NoRead]
                   /\ pc' = [pc EXCEPT ![p] = "bitfield"]
    /\ UNCHANGED <<callVars, mode, torrent, kind, address, ok, conn, connections, closerArr,
                   closerLen, clen, sock, pstate, plen, i, pieceData, fileData, wg,
                   mainPc, outFile, fatal, exited>>

\* getPieceFromPeer 355-361: receive the bitfield message, one conn.Read of
\* receivePeerMessage
RecvBitfield(p) ==
    /\ Alive /\ pc[p] = "bitfield"
    /\ CanRead(conn[p])
    /\ ReadFrom(p, Reading(p, "len", 4))
    /\ \E length \in PrefixLengths(p) :
        LET r == Receive(p, length) IN
        /\ rd' = [rd EXCEPT ![p] = r.rd]
        /\ CASE r.out = "eof" ->
                  /\ GetPieceFailed(p)
                  /\ UNCHANGED <<fatal, exited, sock>>
             [] r.out = "more" ->
                  UNCHANGED <<pc, pieceData, wg, fatal, exited, sock>>
             [] r.out = "panic" ->
                  /\ Panics(p, "panic: slice bounds out of range")
                  /\ UNCHANGED pieceData
             [] OTHER ->
                  /\ IF r.msg.mType = BITFIELD
                     THEN /\ pc' = [pc EXCEPT ![p] = "interested"]
                          /\ UNCHANGED <<pieceData, wg>>
                     ELSE GetPieceFailed(p)
                  /\ UNCHANGED <<fatal, exited, sock>>
    /\ UNCHANGED <<callVars, mode, torrent, kind, address, ok, conn, connections, closerArr,
                   closerLen, clen, pstate, plen, i, fileData, mainPc, outFile>>

\* getPieceFromPeer 364-365: send interested; the error is overwritten
SendInterested(p) ==
    /\ Alive /\ pc[p] = "interested"
    /\ \E err \in WriteErrors(conn[p]) :
        IF err THEN UNCHANGED <<pstate, inbox>>
               ELSE Deliver(conn[p], buildInterestedMessage)
    /\ pc' = [pc EXCEPT ![p] = "unchoke"]
    /\ UNCHANGED <<callVars, mode, torrent, kind, address, ok, conn, connections, closerArr,
                   closerLen, clen, sock, rd, plen, i, pieceData, fileData, wg,
                   mainPc, outFile, fatal, exited>>

\* getPieceFromPeer 369-390: receive the unchoke message, one conn.Read of
\* receivePeerMessage, then enter the loop
RecvUnchoke(p) ==
    /\ Alive /\ pc[p] = "unchoke"
    /\ CanRead(conn[p])
    /\ ReadFrom(p, Reading(p, "len", 4))
    /\ \E length \in PrefixLengths(p) :
        LET r == Receive(p, length) IN
        /\ rd' = [rd EXCEPT ![p] = r.rd]
        /\ CASE r.out = "eof" ->
                  /\ GetPieceFailed(p)
                  /\ UNCHANGED <<plen, i, fatal, exited, sock>>
             [] r.out = "more" ->
                  UNCHANGED <<pc, pieceData, wg, plen, i, fatal, exited, sock>>
             [] r.out = "panic" ->
                  /\ Panics(p, "panic: slice bounds out of range")
                  /\ UNCHANGED <<pieceData, plen, i>>
             [] OTHER ->
                  /\ IF r.msg.mType = UNCHOKE
                     THEN /\ EnterLoop(p)
                          /\ UNCHANGED wg
                     ELSE /\ GetPieceFailed(p)
                          /\ UNCHANGED <<plen, i>>
                  /\ UNCHANGED <<fatal, exited, sock>>
    /\ UNCHANGED <<callVars, mode, torrent, kind, address, ok, conn, connections, closerArr,
                   closerLen, clen, pstate, fileData, mainPc, outFile>>

\* getPieceFromPeer 394-408: request block i
SendRequest(p) ==
    /\ Alive /\ pc[p] = "request"
    /\ \E err \in WriteErrors(conn[p]) :
        IF err
        THEN /\ GetPieceFailed(p)
             /\ UNCHANGED <<pstate, inbox>>
        ELSE /\ Deliver(conn[p],
                        buildRequestMessage(p, i[p] * BlockSize, BlockLength(plen[p], i[p])))
             /\ pc' = [pc EXCEPT ![p] = "piece"]
             /\ UNCHANGED <<pieceData, wg>>
    /\ UNCHANGED <<callVars, mode, torrent, kind, address, ok, conn, connections, closerArr,
                   closerLen, clen, sock, rd, plen, i, fileData, mainPc, outFile,
                   fatal, exited>>

\* What getPieceFromPeer 417-424 does with the message received for block i:
\* "fail" (not a PIECE), "panic" (payload[8:] out of range), "append"
PieceVerdict(m, pieceIndex, begin) ==
    CASE m.mType # PIECE -> "fail"
      [] m.paylen < PieceHeaderLength -> "panic"
      [] OTHER -> "append"

\* getPieceFromPeer 412-427: receive the piece message of block i, one
\* conn.Read of receivePeerMessage; append its block to the buffer; after the
\* last block return the buffer
RecvPiece(p) ==
    /\ Alive /\ pc[p] = "piece"
    /\ CanRead(conn[p])
    /\ ReadFrom(p, Reading(p, "len", 4))
    /\ \E length \in PrefixLengths(p) :
        LET r == Receive(p, length) IN
        /\ rd' = [rd EXCEPT ![p] = r.rd]
        /\ CASE r.out = "eof" ->
                  /\ GetPieceFailed(p)
                  /\ UNCHANGED <<i, fatal, exited, sock>>
             [] r.out = "more" ->
                  UNCHANGED <<pc, pieceData, wg, i, fatal, exited, sock>>
             [] r.out = "panic" ->
                  /\ Panics(p, "panic: slice bounds out of range")
                  /\ UNCHANGED <<pieceData, i>>
             [] OTHER ->
                  LET v == PieceVerdict(r.msg, p, i[p] * BlockSize)
                  IN  CASE v = "fail" ->
                             /\ GetPieceFailed(p)
                             /\ UNCHANGED <<i, fatal, exited, sock>>
                        [] v = "panic" ->
                             /\ Panics(p, "panic: slice bounds out of range")
                             /\ UNCHANGED <<pieceData, i>>
                        [] OTHER ->
                             /\ pieceData' = [pieceData EXCEPT ![p] =
                                                Append(@, BlockOf(r.msg))]
                             /\ i' = [i EXCEPT ![p] = @ + 1]
                             /\ pc' = [pc EXCEPT ![p] =
                                         IF i[p] + 1 < NBlocks(plen[p])
                                         THEN "request" ELSE "verify"]
                             /\ UNCHANGED <<wg, fatal, exited, sock>>
    /\ UNCHANGED <<callVars, mode, torrent, kind, address, ok, conn, connections, closerArr,
                   closerLen, clen, pstate, plen, fileData, mainPc, outFile>>

(***************************************************************************)
(* The output.                                                             *)
(***************************************************************************)
\* Offsets of the block slots of the output buffer
Slots(tor) ==
    UNION { { TruePiece(tor, p)[k][1] : k \in DOMAIN TruePiece(tor, p) } :
            p \in 0..(tor.nPieces - 1) }

\* Number of bytes in the first n payloads of data
RECURSIVE SumLen(_, _)
SumLen(data, n) == IF n = 0 THEN 0 ELSE SumLen(data, n - 1) + data[n][2]

\* The offset forgotten, copy(fileData, data): every piece lands at 0
CopyAtStart(file, dst, data) ==
    [o \in DOMAIN file |->
        IF \E j \in 1..Len(data) : SumLen(data, j - 1) = o
        THEN data[CHOOSE j \in 1..Len(data) : SumLen(data, j - 1) = o]
        ELSE file[o]]

\* copy(fileData[dst:], data): payload j lands at dst + the bytes before it;
\* what falls behind the end of the buffer is not copied
CopyInto(file, dst, data) ==
    [o \in DOMAIN file |->
        IF \E j \in 1..Len(data) : dst + SumLen(data, j - 1) = o
        THEN data[CHOOSE j \in 1..Len(data) : dst + SumLen(data, j - 1) = o]
        ELSE file[o]]

\* downloadFile 544-558 and the deferred wg.Done: compare the hashes, on a
\* mismatch print and return, else copy the piece into fileData
VerifyCopy(p) ==
    /\ mode = "file" /\ Alive /\ pc[p] = "verify"
    /\ fileData' = IF HashesMatch(torrent, p, pieceData[p])
                   THEN CopyInto(fileData, p * torrent.pieceLength, pieceData[p])
                   ELSE fileData
    /\ pc' = [pc EXCEPT ![p] = "done"]
    /\ wg' = wg - 1
    /\ UNCHANGED <<callVars, mode, torrent, kind, address, ok, conn, connections, closerArr,
                   closerLen, clen, sock, pstate, inbox, rd, plen, i, pieceData,
                   mainPc, outFile, fatal, exited>>

\* The wait left out: the caller goes on at once
WaitSkipped == TRUE

\* downloadFile 563, wg.Wait(): returns when the counter is at zero
WaitReturns == wg = 0

\* downloadFile 563-582 and the deferred closers 495-500: once the WaitGroup
\* is at zero, write fileData to the output (MkdirAll, Create or Write may
\* fail), then run every closer of closerFuncs
WaitCommit ==
    /\ mode = "file" /\ Alive /\ mainPc = "wait" /\ WaitReturns
    /\ \E ioOk \in BOOLEAN :
        outFile' = IF ioOk THEN [written |-> TRUE, data |-> fileData] ELSE outFile
    /\ sock' = [s \in DOMAIN sock |->
                  IF \E j \in 1..closerLen : closerArr[j] = s THEN "closed" ELSE sock[s]]
    /\ mainPc' = "returned"
    /\ UNCHANGED <<callVars, mode, torrent, kind, pc, address, ok, conn, connections, closerArr,
                   closerLen, clen, pstate, inbox, rd, plen, i, pieceData, fileData,
                   wg, fatal, exited>>

\* downloadPieceToFile 455-487 and the deferred closer 444: compare the
\* hashes, on a mismatch return, else write the piece to the output file
VerifyWrite(p) ==
    /\ mode = "piece" /\ Alive /\ pc[p] = "verify"
    /\ \E ioOk \in BOOLEAN :
        outFile' = IF HashesMatch(torrent, p, pieceData[p]) /\ ioOk
                   THEN [written |-> TRUE, data |-> pieceData[p]]
                   ELSE outFile
    /\ sock' = [s \in DOMAIN sock |-> IF s = conn[p] THEN "closed" ELSE sock[s]]
    /\ pc' = [pc EXCEPT ![p] = "done"]
    /\ mainPc' = "returned"
    /\ UNCHANGED <<callVars, mode, torrent, kind, address, ok, conn, connections, closerArr,
                   closerLen, clen, pstate, inbox, rd, plen, i, pieceData, fileData,
                   wg, fatal, exited>>

(***************************************************************************)
(* Specifications.                                                         *)
(***************************************************************************)
\* At most MaxFaulty of the peers misbehave
KindAssignments ==
    { k \in [Peers -> Kinds] : Cardinality({a \in Peers : k[a] # "good"}) <= MaxFaulty }

\* The state when the tasks `tasks` are about to start
InitTasks(tasks) ==
    /\ kind \in KindAssignments
    /\ pc = [p \in tasks |-> "start"]
    /\ address = [p \in tasks |-> NoPeer]
    /\ ok = [p \in tasks |-> FALSE]
    /\ conn = [p \in tasks |-> NoSession]
    /\ connections = [a \in Peers |-> NoSession]
    /\ closerArr = [j \in 1..Cardinality(tasks) |-> NoSession]
    /\ closerLen = 0
    /\ clen = [p \in tasks |-> 0]
    /\ sock = [p \in tasks |-> "none"]
    /\ pstate = [p \in tasks |-> "none"]
    /\ inbox = [p \in tasks |-> <<>>]
    /\ rd = [p \in tasks |-> NoRead]
    /\ plen = [p \in tasks |-> 0 - 1]
    /\ i = [p \in tasks |-> 0]
    /\ pieceData = [p \in tasks |-> <<>>]
    /\ fileData = [o \in Slots(torrent) |-> Zeros]
    /\ outFile = [written |-> FALSE, data |-> <<>>]
    /\ fatal = "" /\ exited = FALSE

\* downloadFile 490-508: the maps, the buffer, wg.Add(nPieces), one task per piece
InitFile ==
    /\ mode = "file"
    /\ torrent \in Torrents
    /\ InitTasks(0..(torrent.nPieces - 1))
    /\ wg = torrent.nPieces
    /\ mainPc = "wait"

\* downloadPieceToFile(outputPath, pieceIndex) for a piece of the torrent; the
\* calling goroutine is the one task
InitPiece ==
    /\ mode = "piece"
    /\ torrent \in Torrents
    /\ \E pieceIndex \in 0..(torrent.nPieces - 1) : InitTasks({pieceIndex})
    /\ wg = 0
    /\ mainPc = "running"

\* No call of a function on its own is under way
BlocksIdle ==
    /\ blkPieceIndex = 0 /\ blkPieceLength = 0 /\ blkI = 0 /\ blkRequests = <<>>

NoMessage == [length |-> 0, mType |-> 0, payload |-> <<>>]
NoResult == [val |-> <<>>, count |-> 0, err |-> ""]

RecvIdle == rcvStream = <<>> /\ rcvMsg = NoMessage /\ rcvErr = ""

BencIdle ==
    /\ bencInput = <<>> /\ bencOrder = "none" /\ bencDecoded = NoResult
    /\ bencOutput = <<>> /\ bencInfoHash = <<>>

\* The zero value of info and of torrent
NoInfo == [length |-> 0, name |-> <<>>, nPieces |-> 0, pieceLength |-> 0, pieces |-> <<>>]
NoTorrent == [announce |-> <<>>, infoHash |-> <<>>, info |-> NoInfo]

DescIdle ==
    link = <<>> /\ parsed = NoTorrent /\ parseErr = "" /\ hsMessage = <<>> /\ hsCall = <<>>

MagnetIdle ==
    /\ mgPeer = <<>> /\ mgLink = NoTorrent /\ mgTorrent = NoTorrent /\ mgLog = <<>>
    /\ mgResp = <<>> /\ mgData = NoMessage /\ mgErr = ""

AddrIdle == peersStr = <<>> /\ peerAddresses = <<>>

\* No operation is at its call of t.peers()
NoResponse == [transport |-> "ok", status |-> 0, body |-> <<>>]
NoList == [err |-> "", n |-> 0]
StartIdle == trackerRes = NoResponse /\ peersRet = NoList /\ startPc = "idle"

MoreIdle == DescIdle /\ MagnetIdle /\ AddrIdle /\ StartIdle

CallsIdle == phase = "idle" /\ BlocksIdle /\ RecvIdle /\ BencIdle /\ MoreIdle

Init == (InitFile \/ InitPiece) /\ CallsIdle

Next ==
    \/ \E p \in Tasks : Lookup(p)
    \/ \E p \in Tasks : PickPeer(p)
    \/ \E p \in Tasks : Dial(p)
    \/ \E p \in Tasks : Insert(p)
    \/ MapRaceFatal
    \/ \E p \in Tasks : CloserRead(p)
    \/ \E p \in Tasks : CloserWrite(p)
    \/ \E p \in Tasks : HandshakeSend(p)
    \/ \E p \in Tasks : HandshakeRecv(p)
    \/ \E p \in Tasks : RecvBitfield(p)
    \/ \E p \in Tasks : SendInterested(p)
    \/ \E p \in Tasks : RecvUnchoke(p)
    \/ \E p \in Tasks : SendRequest(p)
    \/ \E p \in Tasks : RecvPiece(p)
    \/ \E p \in Tasks : VerifyCopy(p)
    \/ \E p \in Tasks : VerifyWrite(p)
    \/ WaitCommit
    \/ Exit

\* downloadFile and downloadPieceToFile, on every torrent of Torrents and
\* every assignment of behaviours to the peers
Spec == Init /\ [][Next]_vars

(***************************************************************************)
(* The block loop of getPieceFromPeer on its own, with a peer that answers *)
(* every REQUEST with a PIECE: the REQUESTs it sends for a piece length.   *)
(***************************************************************************)
\* No download is under way
EngineIdle ==
    /\ mode = "none"
    /\ torrent = TorrentOf(0, BlockSize)
    /\ kind = <<>>
    /\ pc = <<>> /\ address = <<>> /\ ok = <<>> /\ conn = <<>>
    /\ connections = <<>> /\ closerArr = <<>> /\ closerLen = 0 /\ clen = <<>>
    /\ sock = <<>> /\ pstate = <<>> /\ inbox = <<>> /\ rd = <<>>
    /\ plen = <<>> /\ i = <<>> /\ pieceData = <<>> /\ fileData = <<>>
    /\ wg = 0 /\ mainPc = "idle"
    /\ outFile = [written |-> FALSE, data |-> <<>>]
    /\ fatal = "" /\ exited = FALSE

\* The values of pieceLength the loop is entered with
BlockPieceLengths ==
    { l \in { k * BlockSize + d : k \in 0..MaxBlocks, d \in (0 - Spread)..Spread } : l >= 0 }

\* getPieceFromPeer 385-392: blockSize, nBlocks, the buffer; i := 0
InitBlocks ==
    /\ EngineIdle
    /\ phase = "blocks_loop"
    /\ blkPieceIndex \in 0..1
    /\ blkPieceLength \in BlockPieceLengths
    /\ blkI = 0
    /\ blkRequests = <<>>
    /\ RecvIdle /\ BencIdle /\ MoreIdle

\* getPieceFromPeer 394-425, one iteration: i < nBlocks, compute begin and
\* blockLength, send the REQUEST (the PIECE is received and appended), i++
BlockRequest ==
    /\ phase = "blocks_loop"
    /\ blkI < NBlocks(blkPieceLength)
    /\ blkRequests' = Append(blkRequests,
            buildRequestMessage(blkPieceIndex, blkI * BlockSize,
                                BlockLength(blkPieceLength, blkI)))
    /\ blkI' = blkI + 1
    /\ UNCHANGED <<engineVars, moreVars, recvVars, bencVars, phase, blkPieceIndex, blkPieceLength>>

\* getPieceFromPeer 394 and 427: i < nBlocks is false, return pieceData
BlockReturn ==
    /\ phase = "blocks_loop"
    /\ ~(blkI < NBlocks(blkPieceLength))
    /\ phase' = "blocks_returned"
    /\ UNCHANGED <<engineVars, moreVars, recvVars, bencVars, blockVars>>

NextBlocks == BlockRequest \/ BlockReturn

SpecBlocks == InitBlocks /\ [][NextBlocks]_vars

(***************************************************************************)
(* receivePeerMessage on its own: the frames a peer has written to the     *)
(* connection before it closed it, read one call after the other.          *)
(***************************************************************************)
\* A frame on the wire: the 4-byte length prefix and the bytes that follow
Frame(body) == [length |-> Len(body), body |-> body]

\* The frames a peer sends: a keep-alive (length 0, nothing follows), UNCHOKE,
\* a BITFIELD of one byte, a PIECE with index 0, begin 0 and one byte of data
Frames ==
    { Frame(<<>>),
      Frame(<<UNCHOKE>>),
      Frame(<<BITFIELD, 255>>),
      Frame(<<PIECE, 0, 0, 0, 0, 0, 0, 0, 0, 42>>) }

\* number of frames the peer has sent
MaxFrames == 3

RECURSIVE FrameSeqs(_)
FrameSeqs(n) ==
    IF n = 0 THEN {<<>>}
    ELSE FrameSeqs(n - 1) \cup
         { Append(fs, f) : fs \in { x \in FrameSeqs(n - 1) : Len(x) = n - 1 }, f \in Frames }

\* newPeerMessage(b) for a b that has a first byte
newPeerMessage(b) ==
    [length |-> Len(Tail(b)) + 1, mType |-> b[1], payload |-> Tail(b)]

\* newPeerMessage: payload := b[1:] is out of range for an empty b
NewPeerMessagePanics(b) == Len(b) < 1

InitRecv ==
    /\ EngineIdle /\ BlocksIdle /\ BencIdle /\ MoreIdle
    /\ phase = "recv_call"
    /\ rcvStream \in FrameSeqs(MaxFrames)
    /\ rcvMsg = NoMessage
    /\ rcvErr = ""

\* receivePeerMessage: receiveBytes(4) (io.EOF when the peer has closed and
\* nothing is left), receiveBytes(msgLength), newPeerMessage(msgBuf)
ReceivePeerMessage ==
    /\ phase = "recv_call"
    /\ IF rcvStream = <<>>
       THEN /\ rcvErr' = "EOF"
            /\ rcvMsg' = NoMessage
            /\ phase' = "recv_failed"
            /\ UNCHANGED rcvStream
       ELSE /\ rcvStream' = Tail(rcvStream)
            /\ IF NewPeerMessagePanics(Head(rcvStream).body)
               THEN /\ rcvErr' = "panic: slice bounds out of range"
                    /\ phase' = "recv_panicked"
                    /\ UNCHANGED rcvMsg
               ELSE /\ rcvMsg' = newPeerMessage(Head(rcvStream).body)
                    /\ UNCHANGED <<rcvErr, phase>>
    /\ UNCHANGED <<engineVars, moreVars, blockVars, bencVars>>

NextRecv == ReceivePeerMessage

SpecRecv == InitRecv /\ [][NextRecv]_vars

(***************************************************************************)
(* bencode.go.  A Go string is the sequence of its bytes, each byte written *)
(* as a one-character string.  Decoded values carry their Go type:         *)
(* string, int, []any, map[string]any.                                     *)
(***************************************************************************)
\* The bytes that occur, in ascending byte value
Ascii ==
    << " ", "+", "-", "0", "1", "2", "3", "4", "5", "6", "7", "8", "9", ":",
       "a", "b", "c", "d", "e", "f", "g", "h", "i", "l", "m", "n", "o", "p",
       "r", "s", "t", "u", "v", "x" >>
Ord(c) == CHOOSE k \in DOMAIN Ascii : Ascii[k] = c

DigitChars == <<"0", "1", "2", "3", "4", "5", "6", "7", "8", "9">>
IsDigit(c) == \E k \in DOMAIN DigitChars : DigitChars[k] = c
DigitVal(c) == (CHOOSE k \in DOMAIN DigitChars : DigitChars[k] = c) - 1

StrVal(s) == [t |-> "string", v |-> s]
IntVal(n) == [t |-> "int", v |-> n]
ListVal(l) == [t |-> "list", v |-> l]
MapVal(m) == [t |-> "map", v |-> m]

\* strings.IndexByte(s, c): index of the first c, counted from 0, or -1
IndexByte(s, c) ==
    IF \E k \in DOMAIN s : s[k] = c
    THEN (CHOOSE k \in DOMAIN s : s[k] = c /\ \A j \in 1..(k - 1) : s[j] # c) - 1
    ELSE 0 - 1

\* s[lo:hi] is in range
SliceOk(s, lo, hi) == 0 <= lo /\ lo <= hi /\ hi <= Len(s)

\* s[lo:hi], s[lo:]
Slice(s, lo, hi) == SubSeq(s, lo + 1, hi)
SliceFrom(s, lo) == SubSeq(s, lo + 1, Len(s))

RECURSIVE DigitsValue(_, _)
DigitsValue(s, acc) ==
    IF s = <<>> THEN acc ELSE DigitsValue(Tail(s), 10 * acc + DigitVal(Head(s)))

\* strconv.Atoi(s): an optional sign, then one decimal digit or more
Atoi(s) ==
    LET signed == s # <<>> /\ Head(s) \in {"+", "-"}
        digits == IF signed THEN Tail(s) ELSE s
    IN  IF digits = <<>> \/ \E k \in DOMAIN digits : ~IsDigit(digits[k])
        THEN [ok |-> FALSE, val |-> 0]
        ELSE [ok |-> TRUE,
              val |-> IF signed /\ Head(s) = "-"
                      THEN 0 - DigitsValue(digits, 0)
                      ELSE DigitsValue(digits, 0)]

\* What a decode function returns: the value and the count with a nil error,
\* the zero value and 0 with an error, or nothing when it panics
Decoded(val, count) == [val |-> val, count |-> count, err |-> ""]
DecodeError == [val |-> <<>>, count |-> 0, err |-> "error"]
DecodePanic == [val |-> <<>>, count |-> 0, err |-> "panic"]

\* The ':' not counted among the bytes processed
decodeStringColonNotCounted(bencodedString) ==
    LET firstColonIndex == IndexByte(bencodedString, ":") IN
    IF ~SliceOk(bencodedString, 0, firstColonIndex) THEN DecodePanic
    ELSE
    LET lengthStr == Slice(bencodedString, 0, firstColonIndex)
        length == Atoi(lengthStr)
    IN  IF ~length.ok THEN DecodeError
        ELSE IF ~SliceOk(bencodedString, firstColonIndex + 1,
                         firstColonIndex + 1 + length.val)
        THEN DecodePanic
        ELSE Decoded(StrVal(Slice(bencodedString, firstColonIndex + 1,
                                  firstColonIndex + 1 + length.val)),
                     length.val + Len(lengthStr))

\* decodeString
decodeString(bencodedString) ==
    LET firstColonIndex == IndexByte(bencodedString, ":") IN
    IF ~SliceOk(bencodedString, 0, firstColonIndex) THEN DecodePanic
    ELSE
    LET lengthStr == Slice(bencodedString, 0, firstColonIndex)
        length == Atoi(lengthStr)
    IN  IF ~length.ok THEN DecodeError
        ELSE IF ~SliceOk(bencodedString, firstColonIndex + 1,
                         firstColonIndex + 1 + length.val)
        THEN DecodePanic
        ELSE Decoded(StrVal(Slice(bencodedString, firstColonIndex + 1,
                                  firstColonIndex + 1 + length.val)),
                     length.val + Len(lengthStr) + 1)

\* decodeInteger
decodeInteger(bencodedString) ==
    LET firstEIndex == IndexByte(bencodedString, "e") IN
    IF firstEIndex = 0 THEN DecodeError
    ELSE IF ~SliceOk(bencodedString, 1, firstEIndex) THEN DecodePanic
    ELSE
    LET intStr == Slice(bencodedString, 1, firstEIndex)
        intVal == Atoi(intStr)
    IN  IF ~intVal.ok THEN DecodeError
        ELSE Decoded(IntVal(intVal.val), Len(intStr) + 2)

RECURSIVE decodeValue(_)
RECURSIVE decodeListLoop(_, _, _)
RECURSIVE decodeDictionaryLoop(_, _, _)

\* decodeList 72-92: the loop, from elementsStr, elements and processed
decodeListLoop(elementsStr, elements, processed) ==
    IF elementsStr = <<>> THEN DecodePanic
    ELSE IF elementsStr[1] = "e" THEN Decoded(ListVal(elements), processed + 2)
    ELSE
    LET r == decodeValue(elementsStr) IN
    IF r.err # "" THEN r
    ELSE decodeListLoop(SliceFrom(elementsStr, r.count), Append(elements, r.val),
                        processed + r.count)

\* decodeList
decodeList(bencodedString) == decodeListLoop(SliceFrom(bencodedString, 1), <<>>, 0)

\* elements[key] = val on a map[string]any
MapPut(m, key, val) ==
    [k \in (DOMAIN m) \cup {key} |-> IF k = key THEN val ELSE m[k]]

\* decodeDictionary 104-134: the loop
decodeDictionaryLoop(elementsStr, elements, processed) ==
    IF elementsStr = <<>> THEN DecodePanic
    ELSE IF elementsStr[1] = "e" THEN Decoded(MapVal(elements), processed + 2)
    ELSE
    LET k == decodeString(elementsStr) IN
    IF k.err # "" THEN k
    ELSE
    LET r == decodeValue(SliceFrom(elementsStr, k.count)) IN
    IF r.err # "" THEN r
    ELSE decodeDictionaryLoop(SliceFrom(elementsStr, k.count + r.count),
                              MapPut(elements, k.val.v, r.val),
                              processed + k.count + r.count)

\* decodeDictionary
decodeDictionary(bencodedString) ==
    decodeDictionaryLoop(SliceFrom(bencodedString, 1), <<>>, 0)

\* decodeValue: bencodedString[0] is out of range for the empty string
decodeValue(bencodedString) ==
    IF bencodedString = <<>> THEN DecodePanic
    ELSE CASE bencodedString[1] = "i" -> decodeInteger(bencodedString)
           [] bencodedString[1] = "l" -> decodeList(bencodedString)
           [] bencodedString[1] = "d" -> decodeDictionary(bencodedString)
           [] OTHER -> decodeString(bencodedString)

\* a < b on Go strings: byte-wise lexicographic
RECURSIVE StrLess(_, _)
StrLess(a, b) ==
    IF b = <<>> THEN FALSE
    ELSE IF a = <<>> THEN TRUE
    ELSE IF a[1] # b[1] THEN Ord(a[1]) < Ord(b[1])
    ELSE StrLess(Tail(a), Tail(b))

\* The keys of a set, smallest first
RECURSIVE AscKeys(_)
AscKeys(S) ==
    IF S = {} THEN <<>>
    ELSE LET least == CHOOSE x \in S : \A y \in S \ {x} : StrLess(x, y)
         IN  <<least>> \o AscKeys(S \ {least})

Reverse(q) == [k \in 1..Len(q) |-> q[Len(q) + 1 - k]]
Rotate(q) == IF q = <<>> THEN q ELSE Tail(q) \o <<Head(q)>>

\* Orders in which `for key := range m` can yield the keys of a map
MapOrders == {"ascending", "descending", "rotated"}

\* bencodeMap 181-183: keys appended in the order range yields them
MapRange(m) ==
    CASE bencOrder = "descending" -> Reverse(AscKeys(DOMAIN m))
      [] bencOrder = "rotated" -> Rotate(AscKeys(DOMAIN m))
      [] OTHER -> AscKeys(DOMAIN m)

\* The sort left out: the keys stay as range yielded them
SortKeysNone(keys) == keys

RECURSIVE InsertKey(_, _)
InsertKey(sorted, key) ==
    IF sorted = <<>> THEN <<key>>
    ELSE IF StrLess(key, Head(sorted)) THEN <<key>> \o sorted
    ELSE <<Head(sorted)>> \o InsertKey(Tail(sorted), key)

RECURSIVE InsertAll(_, _)
InsertAll(sorted, keys) ==
    IF keys = <<>> THEN sorted ELSE InsertAll(InsertKey(sorted, Head(keys)), Tail(keys))

\* bencodeMap 184: sort.Slice(keys, func(i, j int) bool { return keys[i] < keys[j] })
SortKeys(keys) == InsertAll(<<>>, keys)

RECURSIVE FormatNat(_)
FormatNat(n) ==
    IF n < 10 THEN <<DigitChars[n + 1]>>
    ELSE FormatNat(n \div 10) \o <<DigitChars[(n % 10) + 1]>>

\* fmt.Sprintf("%d", n)
FormatInt(n) == IF n < 0 THEN <<"-">> \o FormatNat(0 - n) ELSE FormatNat(n)

\* bencodeString
bencodeString(str) == FormatInt(Len(str)) \o <<":">> \o str

\* bencodeInteger
bencodeInteger(n) == <<"i">> \o FormatInt(n) \o <<"e">>

RECURSIVE bencodeValue(_)
RECURSIVE bencodeListLoop(_, _)
RECURSIVE bencodeMapLoop(_, _)

\* bencodeList 167-169: `for v := range l` with one variable yields the
\* indices 0 .. len(l)-1, and v, an int, is what is encoded
bencodeListLoop(l, v) ==
    IF v >= Len(l) THEN <<>>
    ELSE bencodeValue(IntVal(v)) \o bencodeListLoop(l, v + 1)

\* bencodeList
bencodeList(l) == <<"l">> \o bencodeListLoop(l, 0) \o <<"e">>

\* bencodeMap 187-190: the loop over the sorted keys
bencodeMapLoop(m, keys) ==
    IF keys = <<>> THEN <<>>
    ELSE bencodeString(Head(keys)) \o bencodeValue(m[Head(keys)])
            \o bencodeMapLoop(m, Tail(keys))

\* bencodeMap
bencodeMap(m) == <<"d">> \o bencodeMapLoop(m, SortKeys(MapRange(m))) \o <<"e">>

\* bencodeValue: the empty string for a value of any other type
bencodeValue(v) ==
    CASE v.t = "string" -> bencodeString(v.v)
      [] v.t = "int" -> bencodeInteger(v.v)
      [] v.t = "list" -> bencodeList(v.v)
      [] v.t = "map" -> bencodeMap(v.v)
      [] OTHER -> <<>>

\* infoHash: SHA-1 of the info map bencoded again
infoHash(info) == SHA1(bencodeMap(info))

(***************************************************************************)
(* decodeValue, bencodeValue and parseTorrentFile on their own: the inputs *)
(* they are given and the calls made on them.                              *)
(***************************************************************************)
\* The concatenation of a sequence of strings
RECURSIVE Flatten(_)
Flatten(parts) == IF parts = <<>> THEN <<>> ELSE Head(parts) \o Flatten(Tail(parts))

\* The sequences of at most n elements of S
RECURSIVE SeqsUpTo(_, _)
SeqsUpTo(S, n) ==
    IF n = 0 THEN {<<>>}
    ELSE SeqsUpTo(S, n - 1) \cup
         { Append(q, x) : q \in { y \in SeqsUpTo(S, n - 1) : Len(y) = n - 1 }, x \in S }

\* a before b in lexicographic byte order
LexLess(a, b) ==
    \E k \in 1..(Len(b)) :
        /\ \A j \in 1..(k - 1) : j <= Len(a) /\ a[j] = b[j]
        /\ (k > Len(a) \/ (k - 1 < Len(a) /\ Ord(a[k]) < Ord(b[k])))

\* number of elements of the lists and of entries of the dictionaries decoded
MaxElems == 2

\* Encodings of strings and integers
BencAtoms ==
    { <<"0", ":">>,
      <<"1", ":", "a">>,
      <<"2", ":", "b", "a">>,
      <<"1", ":", "e">>,
      <<"i", "0", "e">>,
      <<"i", "7", "e">>,
      <<"i", "-", "3", "e">>,
      <<"i", "1", "2", "e">> }

\* Encodings of lists of up to MaxElems strings and integers
WfLists ==
    { <<"l">> \o Flatten(es) \o <<"e">> :
        es \in SeqsUpTo({ <<"1", ":", "a">>,
                          <<"i", "7", "e">>,
                          <<"0", ":">>,
                          <<"i", "-", "3", "e">> }, MaxElems) }

\* A dictionary entry as written in the source: the key, and the bytes of
\* the encoded key followed by the encoded value
DictEntries ==
    { [key |-> ks[1], src |-> ks[2] \o v] :
        ks \in { << <<"a">>, <<"1", ":", "a">> >>,
                 << <<"b">>, <<"1", ":", "b">> >>,
                 << <<"a", "b">>, <<"2", ":", "a", "b">> >> },
        v \in { <<"1", ":", "a">>, <<"i", "7", "e">> } }

DictOf(es) == <<"d">> \o Flatten([k \in 1..Len(es) |-> es[k].src]) \o <<"e">>

\* Encodings of dictionaries of up to MaxElems entries, in any key order ...
WfDicts == { DictOf(es) : es \in SeqsUpTo(DictEntries, MaxElems) }

\* ... and those whose keys are in ascending order
WfSortedDicts ==
    { DictOf(es) : es \in { x \in SeqsUpTo(DictEntries, MaxElems) :
                            \A j \in 1..(Len(x) - 1) : LexLess(x[j].key, x[j + 1].key) } }

\* Lists and dictionaries inside lists and dictionaries
WfNested ==
    { <<"l", "l", "e", "e">>,
      <<"l", "l", "1", ":", "a", "e", "e">>,
      <<"l", "d", "e", "e">>,
      <<"l", "d", "1", ":", "a", "i", "7", "e", "e", "e">>,
      <<"d", "1", ":", "a", "l", "e", "e">>,
      <<"d", "1", ":", "a", "l", "1", ":", "a", "e", "e">>,
      <<"d", "1", ":", "a", "d", "e", "e">>,
      <<"d", "1", ":", "a", "d", "1", ":", "a", "i", "7", "e", "e", "e">> }

WellFormedSorted == BencAtoms \cup WfLists \cup WfSortedDicts \cup WfNested
WellFormed == WellFormedSorted \cup WfDicts

\* What follows the value in the input
Suffixes == { <<>>, <<"e">>, <<":", "1">> }

\* Inputs that are no bencoded value
Malformed ==
    { <<>>,
      <<"x">>,
      <<"x", ":">>,
      <<"e">>,
      <<":">>,
      <<"+", "1", ":", "a">>,
      <<"-", "1", ":", "a">>,
      <<"i", "1", "2">>,
      <<"l", "1", ":", "a">>,
      <<"5", ":", "a", "b">>,
      <<"i", "e">>,
      <<"d", "1", ":", "a">>,
      <<"i", "x", "e">>,
      <<"l">>,
      <<"d", "i", "1", "e", "1", ":", "a", "e">> }

\* The info dictionary of a single-file metainfo, as written in the file:
\* as bencodeMap writes it, with one more integer key, with name before
\* length, with a list under the key files
InfoCanonical ==
    <<"d", "6", ":", "l", "e", "n", "g", "t", "h", "i", "5", "e", "4", ":", "n", "a",
       "m", "e", "1", ":", "a", "1", "2", ":", "p", "i", "e", "c", "e", " ", "l", "e",
       "n", "g", "t", "h", "i", "5", "e", "6", ":", "p", "i", "e", "c", "e", "s", "2",
       "0", ":", "a", "a", "a", "a", "a", "a", "a", "a", "a", "a", "a", "a", "a", "a",
       "a", "a", "a", "a", "a", "a", "e">>
InfoExtraKey ==
    <<"d", "6", ":", "l", "e", "n", "g", "t", "h", "i", "5", "e", "4", ":", "n", "a",
       "m", "e", "1", ":", "a", "1", "2", ":", "p", "i", "e", "c", "e", " ", "l", "e",
       "n", "g", "t", "h", "i", "5", "e", "6", ":", "p", "i", "e", "c", "e", "s", "2",
       "0", ":", "a", "a", "a", "a", "a", "a", "a", "a", "a", "a", "a", "a", "a", "a",
       "a", "a", "a", "a", "a", "a", "7", ":", "p", "r", "i", "v", "a", "t", "e", "i",
       "1", "e", "e">>
InfoUnsorted ==
    <<"d", "4", ":", "n", "a", "m", "e", "1", ":", "a", "6", ":", "l", "e", "n", "g",
       "t", "h", "i", "5", "e", "1", "2", ":", "p", "i", "e", "c", "e", " ", "l", "e",
       "n", "g", "t", "h", "i", "5", "e", "6", ":", "p", "i", "e", "c", "e", "s", "2",
       "0", ":", "a", "a", "a", "a", "a", "a", "a", "a", "a", "a", "a", "a", "a", "a",
       "a", "a", "a", "a", "a", "a", "e">>
InfoWithList ==
    <<"d", "5", ":", "f", "i", "l", "e", "s", "l", "1", ":", "a", "e", "6", ":", "l",
       "e", "n", "g", "t", "h", "i", "5", "e", "4", ":", "n", "a", "m", "e", "1", ":",
       "a", "1", "2", ":", "p", "i", "e", "c", "e", " ", "l", "e", "n", "g", "t", "h",
       "i", "5", "e", "6", ":", "p", "i", "e", "c", "e", "s", "2", "0", ":", "a", "a",
       "a", "a", "a", "a", "a", "a", "a", "a", "a", "a", "a", "a", "a", "a", "a", "a",
       "a", "a", "e">>
InfoSources == {InfoCanonical, InfoExtraKey, InfoUnsorted, InfoWithList}

\* Info dictionaries parseTorrentFile has to judge: two piece hashes for a
\* length of one piece, a pieces string of 3 bytes, a piece length of 0, and
\* one with no length
InfoTwoHashes ==
    <<"d", "6", ":", "l", "e", "n", "g", "t", "h", "i", "5", "e", "4", ":", "n", "a",
      "m", "e", "1", ":", "a", "1", "2", ":", "p", "i", "e", "c", "e", " ", "l", "e",
      "n", "g", "t", "h", "i", "5", "e", "6", ":", "p", "i", "e", "c", "e", "s", "4",
      "0", ":", "a", "a", "a", "a", "a", "a", "a", "a", "a", "a", "a", "a", "a", "a",
      "a", "a", "a", "a", "a", "a", "b", "b", "b", "b", "b", "b", "b", "b", "b", "b",
      "b", "b", "b", "b", "b", "b", "b", "b", "b", "b", "e">>
InfoRaggedPieces ==
    <<"d", "6", ":", "l", "e", "n", "g", "t", "h", "i", "5", "e", "4", ":", "n", "a",
      "m", "e", "1", ":", "a", "1", "2", ":", "p", "i", "e", "c", "e", " ", "l", "e",
      "n", "g", "t", "h", "i", "5", "e", "6", ":", "p", "i", "e", "c", "e", "s", "3",
      ":", "a", "b", "c", "e">>
InfoZeroPieceLength ==
    <<"d", "6", ":", "l", "e", "n", "g", "t", "h", "i", "5", "e", "4", ":", "n", "a",
      "m", "e", "1", ":", "a", "1", "2", ":", "p", "i", "e", "c", "e", " ", "l", "e",
      "n", "g", "t", "h", "i", "0", "e", "6", ":", "p", "i", "e", "c", "e", "s", "2",
      "0", ":", "a", "a", "a", "a", "a", "a", "a", "a", "a", "a", "a", "a", "a", "a",
      "a", "a", "a", "a", "a", "a", "e">>
InfoNoLength ==
    <<"d", "4", ":", "n", "a", "m", "e", "1", ":", "a", "1", "2", ":", "p", "i", "e",
      "c", "e", " ", "l", "e", "n", "g", "t", "h", "i", "5", "e", "6", ":", "p", "i",
      "e", "c", "e", "s", "2", "0", ":", "a", "a", "a", "a", "a", "a", "a", "a", "a",
      "a", "a", "a", "a", "a", "a", "a", "a", "a", "a", "a", "e">>
InfoInvalid == {InfoTwoHashes, InfoRaggedPieces, InfoZeroPieceLength, InfoNoLength}

KeyInfo == <<"i", "n", "f", "o">>

\* The metainfo file around an info dictionary
TorrentFileOf(infoSrc) ==
    <<"d", "8", ":", "a", "n", "n", "o", "u", "n", "c", "e", "1", ":", "u", "4", ":",
       "i", "n", "f", "o">>
        \o infoSrc \o <<"e">>

TorrentFiles == { TorrentFileOf(x) : x \in InfoSources \cup InfoInvalid }

\* Files that are no metainfo: a dictionary with no info key, one whose key
\* is an integer, an empty file
NoMetainfo ==
    { <<"d", "8", ":", "a", "n", "n", "o", "u", "n", "c", "e", "1", ":", "u", "e">>,
      <<"d", "i", "1", "e", "1", ":", "a", "e">>,
      <<>> }

MetainfoFiles == TorrentFiles \cup NoMetainfo

BencInputs ==
    { w \o x : w \in WellFormed, x \in Suffixes } \cup Malformed \cup MetainfoFiles

(***************************************************************************)
(* The torrent descriptor: parseTorrentFile, parseMagnetLink and the       *)
(* handshake message built from it.                                        *)
(***************************************************************************)
ProtocolString == <<"B", "i", "t", "T", "o", "r", "r", "e", "n", "t", " ", "p", "r", "o", "t", "o",
      "c", "o", "l">>

KeyM == <<"m">>
KeyUtMetadata == <<"u", "t", "_", "m", "e", "t", "a", "d", "a", "t", "a">>
KeyMsgType == <<"m", "s", "g", "_", "t", "y", "p", "e">>
KeyPiece == <<"p", "i", "e", "c", "e">>
KeyTotalSize == <<"t", "o", "t", "a", "l", "_", "s", "i", "z", "e">>
KeyPieces == <<"p", "i", "e", "c", "e", "s">>
KeyLength == <<"l", "e", "n", "g", "t", "h">>
KeyName == <<"n", "a", "m", "e">>
KeyPieceLength == <<"p", "i", "e", "c", "e", " ", "l", "e", "n", "g", "t", "h">>
KeyAnnounce == <<"a", "n", "n", "o", "u", "n", "c", "e">>

\* h.Sum(nil): the 20 bytes of a SHA-1 digest
DigestBytes(h) == [k \in 1..20 |-> <<h, k>>]

\* rand.Read(peerId): 20 bytes
RandomPeerId == [k \in 1..20 |-> <<"rand", k>>]

\* buildHandshakeMessage, byte by byte
HandshakeBytes(peerId, ih, supportExtensions) ==
    <<19>> \o ProtocolString
        \o [k \in 1..8 |-> IF supportExtensions /\ k = 6 THEN 16 ELSE 0]
        \o ih \o peerId

\* infoDict[key].(type) succeeds
HasType(m, key, type) == key \in DOMAIN m /\ m[key].t = type

\* parseTorrentFile 56-71, magnetInfo 328-344: every assertion succeeds
InfoAssertionsOk(infoDict) ==
    /\ HasType(infoDict, KeyPieces, "string")
    /\ HasType(infoDict, KeyLength, "int")
    /\ HasType(infoDict, KeyName, "string")
    /\ HasType(infoDict, KeyPieceLength, "int")

\* parseTorrentFile 56-71, magnetInfo 328-344: the info built from the
\* dictionary, the pieces string cut in len(piecesStr) / 20 slices of 20
InfoOf(infoDict) ==
    LET piecesStr == infoDict[KeyPieces].v
        n == Len(piecesStr) \div 20
    IN  [length |-> infoDict[KeyLength].v,
         name |-> infoDict[KeyName].v,
         nPieces |-> n,
         pieceLength |-> infoDict[KeyPieceLength].v,
         pieces |-> [k \in 1..n |-> Slice(piecesStr, (k - 1) * 20, k * 20)]]


InitBencode ==
    /\ EngineIdle /\ BlocksIdle /\ RecvIdle /\ MoreIdle
    /\ phase = "benc_input"
    /\ bencInput \in BencInputs
    /\ bencOrder \in MapOrders
    /\ bencDecoded = NoResult
    /\ bencOutput = <<>>
    /\ bencInfoHash = <<>>

\* val, count, err := decodeValue(bencInput)
DecodeValue ==
    /\ phase = "benc_input"
    /\ bencDecoded' = decodeValue(bencInput)
    /\ phase' = "benc_decoded"
    /\ UNCHANGED <<engineVars, moreVars, blockVars, recvVars, bencInput, bencOrder, bencOutput,
                   bencInfoHash>>

\* bencodeValue(val) on the value decoded
BencodeValue ==
    /\ phase = "benc_decoded"
    /\ bencDecoded.err = ""
    /\ bencOutput' = bencodeValue(bencDecoded.val)
    /\ phase' = "benc_encoded"
    /\ UNCHANGED <<engineVars, moreVars, blockVars, recvVars, bencInput, bencOrder, bencDecoded,
                   bencInfoHash>>

\* parseTorrentFile 52-79 on the content of a metainfo file: decodeDictionary
\* (its error returned), the assertions on info, its keys and announce (a
\* panic when one fails), t.info, t.announce, t.infoHash = infoHash(infoDict)
ParseTorrentFile ==
    /\ phase = "benc_input"
    /\ bencInput \in MetainfoFiles
    /\ bencDecoded' = decodeDictionary(bencInput)
    /\ LET torrentDict == bencDecoded'.val.v IN
       IF bencDecoded'.err # ""
       THEN /\ phase' = "benc_failed"
            /\ parseErr' = bencDecoded'.err
            /\ UNCHANGED <<bencInfoHash, parsed>>
       ELSE IF \/ ~HasType(torrentDict, KeyInfo, "map")
               \/ ~InfoAssertionsOk(torrentDict[KeyInfo].v)
               \/ ~HasType(torrentDict, KeyAnnounce, "string")
       THEN /\ phase' = "benc_failed"
            /\ parseErr' = "panic"
            /\ UNCHANGED <<bencInfoHash, parsed>>
       ELSE /\ phase' = "benc_parsed"
            /\ parseErr' = ""
            /\ bencInfoHash' = infoHash(torrentDict[KeyInfo].v)
            /\ parsed' = [announce |-> torrentDict[KeyAnnounce].v,
                          infoHash |-> DigestBytes(bencInfoHash'),
                          info |-> InfoOf(torrentDict[KeyInfo].v)]
    /\ UNCHANGED <<engineVars, startVars, blockVars, recvVars, bencInput, bencOrder, bencOutput,
                   link, hsMessage, hsCall, magnetVars, addrVars>>

(***************************************************************************)
(* parseMagnetLink on its own, and the handshake built from the torrent it *)
(* returns.  A link is given as what url.ParseQuery(link[8:]) makes of it: *)
(* an error, or the parameters in the order of the link.                   *)
(***************************************************************************)
HexDigits ==
    <<"0", "1", "2", "3", "4", "5", "6", "7", "8", "9", "a", "b", "c", "d", "e", "f">>
HexUpper == <<"A", "B", "C", "D", "E", "F">>

IsHex(c) ==
    \/ \E k \in DOMAIN HexDigits : HexDigits[k] = c
    \/ \E k \in DOMAIN HexUpper : HexUpper[k] = c

HexVal(c) ==
    IF \E k \in DOMAIN HexDigits : HexDigits[k] = c
    THEN (CHOOSE k \in DOMAIN HexDigits : HexDigits[k] = c) - 1
    ELSE (CHOOSE k \in DOMAIN HexUpper : HexUpper[k] = c) + 9

\* hex.Decode: pairs of hex digits are decoded until a byte that is no hex
\* digit, or a last byte with no partner, ends it with an error
RECURSIVE hexDecodeLoop(_, _)
hexDecodeLoop(src, dst) ==
    IF src = <<>> THEN [bytes |-> dst, err |-> ""]
    ELSE IF Len(src) = 1 \/ ~IsHex(src[1]) \/ ~IsHex(src[2])
    THEN [bytes |-> dst, err |-> "error"]
    ELSE hexDecodeLoop(SliceFrom(src, 2),
                       Append(dst, 16 * HexVal(src[1]) + HexVal(src[2])))

\* hex.DecodeString(s): the bytes decoded before the error, and the error
hexDecodeString(str) == hexDecodeLoop(str, <<>>)

\* url.Values.Get(key): the first value of the key, or ""
Get(queryParameters, key) ==
    IF \E k \in DOMAIN queryParameters : queryParameters[k].key = key
    THEN queryParameters[CHOOSE k \in DOMAIN queryParameters :
                            /\ queryParameters[k].key = key
                            /\ \A j \in 1..(k - 1) : queryParameters[j].key # key].value
    ELSE <<>>

UrnBtih == <<"u", "r", "n", ":", "b", "t", "i", "h", ":">>

\* Values of xt: the infohash in 40 hex digits, in upper case, in 4 digits,
\* in 42, in 41, with bytes that are no hex digits, under another urn, and
\* a value shorter than the prefix
XtValid ==
    <<"u", "r", "n", ":", "b", "t", "i", "h", ":", "a", "d", "4", "2", "c", "e", "8",
      "1", "0", "9", "f", "5", "4", "c", "9", "9", "6", "1", "3", "c", "e", "3", "8",
      "f", "9", "b", "4", "d", "8", "7", "e", "7", "0", "f", "2", "4", "a", "1", "6",
      "5">>
XtUpperCase ==
    <<"u", "r", "n", ":", "b", "t", "i", "h", ":", "A", "D", "4", "2", "C", "E", "8",
      "1", "0", "9", "F", "5", "4", "C", "9", "9", "6", "1", "3", "C", "E", "3", "8",
      "F", "9", "B", "4", "D", "8", "7", "E", "7", "0", "F", "2", "4", "A", "1", "6",
      "5">>
XtShortHash == <<"u", "r", "n", ":", "b", "t", "i", "h", ":", "a", "b", "c", "d">>
XtLongHash ==
    <<"u", "r", "n", ":", "b", "t", "i", "h", ":", "a", "d", "4", "2", "c", "e", "8",
      "1", "0", "9", "f", "5", "4", "c", "9", "9", "6", "1", "3", "c", "e", "3", "8",
      "f", "9", "b", "4", "d", "8", "7", "e", "7", "0", "f", "2", "4", "a", "1", "6",
      "5", "f", "f">>
XtOddHash ==
    <<"u", "r", "n", ":", "b", "t", "i", "h", ":", "a", "d", "4", "2", "c", "e", "8",
      "1", "0", "9", "f", "5", "4", "c", "9", "9", "6", "1", "3", "c", "e", "3", "8",
      "f", "9", "b", "4", "d", "8", "7", "e", "7", "0", "f", "2", "4", "a", "1", "6",
      "5", "f">>
XtNotHex ==
    <<"u", "r", "n", ":", "b", "t", "i", "h", ":", "z", "z", "4", "2", "c", "e", "8",
      "1", "0", "9", "f", "5", "4", "c", "9", "9", "6", "1", "3", "c", "e", "3", "8",
      "f", "9", "b", "4", "d", "8", "7", "e", "7", "0", "f", "2", "4", "a", "1", "6",
      "5">>
XtOtherUrn ==
    <<"u", "r", "n", ":", "s", "h", "a", "1", ":", "a", "d", "4", "2", "c", "e", "8",
      "1", "0", "9", "f", "5", "4", "c", "9", "9", "6", "1", "3", "c", "e", "3", "8",
      "f", "9", "b", "4", "d", "8", "7", "e", "7", "0", "f", "2", "4", "a", "1", "6",
      "5">>
XtTooShort == <<"u", "r", "n", ":">>

XtValues == {XtValid, XtUpperCase, XtShortHash, XtLongHash, XtOddHash, XtNotHex,
             XtOtherUrn, XtTooShort}

Param(key, value) == <<[key |-> key, value |-> value]>>

\* The links: with or without xt, dn and tr, and those ParseQuery rejects
Links ==
    { [err |-> e, queryParameters |-> xt \o dn \o tr] :
        e \in BOOLEAN,
        xt \in {<<>>} \cup { Param("xt", v) : v \in XtValues },
        dn \in {<<>>, Param("dn", <<"x">>)},
        tr \in {<<>>, Param("tr", <<"u">>)} }

InitLink ==
    /\ EngineIdle /\ StartIdle /\ BlocksIdle /\ RecvIdle /\ BencIdle /\ MagnetIdle /\ AddrIdle
    /\ phase = "link_input"
    /\ link \in Links
    /\ parsed = NoTorrent
    /\ parseErr = ""
    /\ hsMessage = <<>>
    /\ hsCall = <<>>

\* parseMagnetLink 83-100: the error of ParseQuery returned; Get("xt")[9:]
\* (out of range for a value shorter than 9 bytes); hex.DecodeString, its
\* error assigned and not looked at; return t, nil
ParseMagnetLink ==
    /\ phase = "link_input"
    /\ LET xt == Get(link.queryParameters, "xt") IN
       IF link.err
       THEN /\ parseErr' = "error"
            /\ phase' = "link_failed"
            /\ UNCHANGED parsed
       ELSE IF ~SliceOk(xt, 9, Len(xt))
       THEN /\ parseErr' = "panic"
            /\ phase' = "link_failed"
            /\ UNCHANGED parsed
       ELSE /\ parsed' = [announce |-> Get(link.queryParameters, "tr"),
                          infoHash |-> hexDecodeString(SliceFrom(xt, 9)).bytes,
                          info |-> [NoInfo EXCEPT
                                        !.name = Get(link.queryParameters, "dn")]]
            /\ parseErr' = ""
            /\ phase' = "link_parsed"
    /\ UNCHANGED <<engineVars, startVars, blockVars, recvVars, bencVars, link, hsMessage,
                   hsCall, magnetVars, addrVars>>


(***************************************************************************)
(* magnetInfo: the exchange with the first peer the tracker names, from    *)
(* the handshake to the metadata reply.  The bytes of a message are        *)
(* numbers, except those of text, which are one-character strings.         *)
(***************************************************************************)
EXTENSION_MESSAGE == 20
METADATA_EXTENSTION_REQUEST == 0
METADATA_EXTENSTION_DATA == 1
METADATA_EXTENSTION_REJECT == 2

\* The id buildExtensionHandshakeMessage announces for ut_metadata
OwnMetadataId == 123

ExtensionMessage(payload) ==
    [length |-> Len(payload) + 1, mType |-> EXTENSION_MESSAGE, payload |-> payload]

\* buildExtensionHandshakeMessage: byte 0, then d1:md11:ut_metadatai123eee
buildExtensionHandshakeMessage ==
    ExtensionMessage(<<0>> \o
        bencodeMap(KeyM :> MapVal(KeyUtMetadata :> IntVal(OwnMetadataId))))

\* The request with the announcing side's own id in place of the peer's
buildMetadataRequestMessageOwnId(metadataExtensionId) ==
    ExtensionMessage(<<OwnMetadataId>> \o
        bencodeMap(KeyMsgType :> IntVal(METADATA_EXTENSTION_REQUEST)
                   @@ KeyPiece :> IntVal(0)))

\* buildMetadataRequestMessage: byte(metadataExtensionId), then
\* d8:msg_typei0e5:piecei0ee
buildMetadataRequestMessage(metadataExtensionId) ==
    ExtensionMessage(<<metadataExtensionId % 256>> \o
        bencodeMap(KeyMsgType :> IntVal(METADATA_EXTENSTION_REQUEST)
                   @@ KeyPiece :> IntVal(0)))

\* What the peer answers the handshake with
PeerHandshake(ih, supports) ==
    HandshakeBytes([k \in 1..20 |-> <<"peer", k>>], ih, supports)

PeerBitfield == [length |-> 2, mType |-> BITFIELD, payload |-> <<255>>]

\* The peer's extension handshake: d1:md11:ut_metadatai<id>eee, or d1:mdee
\* from a peer that does not know ut_metadata
PeerExtensionHandshake(announces, id) ==
    ExtensionMessage(<<0>> \o
        (IF announces
         THEN <<"d", "1", ":", "m", "d", "1", "1", ":">> \o KeyUtMetadata
                \o <<"i">> \o FormatInt(id) \o <<"e", "e", "e">>
         ELSE <<"d", "1", ":", "m", "d", "e", "e">>))

\* The header of a ut_metadata message
MetadataHeader(msgType, piece, size) ==
    <<"d", "8", ":">> \o KeyMsgType \o <<"i">> \o FormatInt(msgType) \o <<"e">>
        \o <<"5", ":">> \o KeyPiece \o <<"i">> \o FormatInt(piece) \o <<"e">>
        \o (IF size > 0
            THEN <<"1", "0", ":">> \o KeyTotalSize \o <<"i">> \o FormatInt(size) \o <<"e">>
            ELSE <<>>)
        \o <<"e">>

\* What the peer answers the metadata request with: the data message for
\* piece 0, a reject, a data message for another piece, a data header with
\* nothing after it, a message that is no extension message
ReplyKinds == {"data", "reject", "other_piece", "no_metadata", "unchoke"}

PeerReply(replyKind, metadata) ==
    CASE replyKind = "data" ->
            ExtensionMessage(<<OwnMetadataId>>
                \o MetadataHeader(METADATA_EXTENSTION_DATA, 0, Len(metadata)) \o metadata)
      [] replyKind = "reject" ->
            ExtensionMessage(<<OwnMetadataId>>
                \o MetadataHeader(METADATA_EXTENSTION_REJECT, 0, 0))
      [] replyKind = "other_piece" ->
            ExtensionMessage(<<OwnMetadataId>>
                \o MetadataHeader(METADATA_EXTENSTION_DATA, 1, Len(metadata)) \o metadata)
      [] replyKind = "no_metadata" ->
            ExtensionMessage(<<OwnMetadataId>>
                \o MetadataHeader(METADATA_EXTENSTION_DATA, 0, Len(metadata)))
      [] OTHER -> [length |-> 1, mType |-> UNCHOKE, payload |-> <<>>]

\* The tracker's answer, whether the peer accepts the connection, whether
\* its handshake has the extension bit, whether its extension handshake
\* names ut_metadata and under which id, its answer to the metadata request
\* and the dictionary in it, and the receive (1 to 4) it closes before
MagnetPeers ==
    [tracker : {"peers", "error", "none"},
     dial : BOOLEAN,
     supports : BOOLEAN,
     announces : BOOLEAN,
     extId : {1, 2},
     reply : ReplyKinds,
     metadata : {InfoCanonical, InfoExtraKey},
     closeAt : 0..4]

\* The torrent parseMagnetLink returns for a link that names the info
\* dictionary InfoCanonical, with or without a display name
MagnetLinkTorrents ==
    { [announce |-> <<"u">>,
       infoHash |-> DigestBytes(SHA1(InfoCanonical)),
       info |-> [NoInfo EXCEPT !.name = dn]] : dn \in {<<>>, <<"x">>} }

Sent(m) == [op |-> "send", msg |-> m]
Received(m) == [op |-> "recv", msg |-> m]

InitMagnet ==
    /\ EngineIdle /\ StartIdle /\ BlocksIdle /\ RecvIdle /\ DescIdle /\ AddrIdle
    /\ phase = "mg_peers"
    /\ bencInput = <<>> /\ bencDecoded = NoResult /\ bencOutput = <<>>
    /\ bencInfoHash = <<>>
    /\ bencOrder \in MapOrders
    /\ mgPeer \in MagnetPeers
    /\ mgLink \in MagnetLinkTorrents
    /\ mgTorrent = mgLink
    /\ mgLog = <<>>
    /\ mgResp = <<>>
    /\ mgData = NoMessage
    /\ mgErr = ""

MagnetUnchanged == UNCHANGED <<engineVars, startVars, blockVars, recvVars, bencVars, descVars,
                               addrVars, mgPeer, mgLink>>

\* magnetInfo returns err, or panics
MagnetEnds(err) == mgErr' = err /\ phase' = "mg_done"

\* magnetInfo 261-269: t.peers(), peers[0] (out of range for an empty
\* list), newPeerConnection (its error is not looked at)
MagnetGetPeers ==
    /\ phase = "mg_peers"
    /\ CASE mgPeer.tracker = "error" -> MagnetEnds("error")
         [] mgPeer.tracker = "none" -> MagnetEnds("panic")
         [] OTHER -> mgErr' = mgErr /\ phase' = "mg_handshake"
    /\ UNCHANGED <<mgTorrent, mgLog, mgResp, mgData>>
    /\ MagnetUnchanged

\* magnetInfo 272-275, handshake 160-178: conn is nil after a failed dial and
\* sendBytes dereferences it; else the handshake is sent and 68 bytes read
MagnetHandshake ==
    /\ phase = "mg_handshake"
    /\ LET message == HandshakeBytes(RandomPeerId, mgTorrent.infoHash, TRUE)
           res == PeerHandshake(mgTorrent.infoHash, mgPeer.supports)
       IN  IF ~mgPeer.dial
           THEN MagnetEnds("panic") /\ UNCHANGED <<mgLog, mgResp>>
           ELSE IF mgPeer.closeAt = 1
           THEN /\ MagnetEnds("error")
                /\ mgLog' = Append(mgLog, Sent(message))
                /\ UNCHANGED mgResp
           ELSE /\ mgLog' = mgLog \o <<Sent(message), Received(res)>>
                /\ mgResp' = [handshakeResponse |-> res, peerMetadataExtensionId |-> 0]
                /\ mgErr' = mgErr
                /\ phase' = "mg_bitfield"
    /\ UNCHANGED <<mgTorrent, mgData>>
    /\ MagnetUnchanged

\* magnetInfo 278-286, 347: the next message is read, whatever its type; if
\* handshakeResponse[25] is not 16 the function returns nil
MagnetBitfield ==
    /\ phase = "mg_bitfield"
    /\ IF mgPeer.closeAt = 2
       THEN MagnetEnds("error") /\ UNCHANGED mgLog
       ELSE /\ mgLog' = Append(mgLog, Received(PeerBitfield))
            /\ IF mgResp.handshakeResponse[26] = 16
               THEN mgErr' = mgErr /\ phase' = "mg_ext_send"
               ELSE MagnetEnds("")
    /\ UNCHANGED <<mgTorrent, mgResp, mgData>>
    /\ MagnetUnchanged

\* magnetInfo 288-292
MagnetExtensionHandshake ==
    /\ phase = "mg_ext_send"
    /\ mgLog' = Append(mgLog, Sent(buildExtensionHandshakeMessage))
    /\ phase' = "mg_ext_recv"
    /\ UNCHANGED <<mgTorrent, mgResp, mgData, mgErr>>
    /\ MagnetUnchanged

\* magnetInfo 295-308: the response is read and decoded, the errors of
\* decodeDictionary dropped; decoded["m"].(map[string]any) and
\* mMap["ut_metadata"].(int) panic when the key is absent
MagnetExtensionResponse ==
    /\ phase = "mg_ext_recv"
    /\ LET response == PeerExtensionHandshake(mgPeer.announces, mgPeer.extId)
           decoded == decodeDictionary(SliceFrom(response.payload, 1))
       IN  IF mgPeer.closeAt = 3
           THEN MagnetEnds("error") /\ UNCHANGED <<mgLog, mgResp>>
           ELSE /\ mgLog' = Append(mgLog, Received(response))
                /\ IF /\ decoded.err = ""
                      /\ HasType(decoded.val.v, KeyM, "map")
                      /\ HasType(decoded.val.v[KeyM].v, KeyUtMetadata, "int")
                   THEN /\ mgResp' = [mgResp EXCEPT !.peerMetadataExtensionId =
                                          decoded.val.v[KeyM].v[KeyUtMetadata].v]
                        /\ mgErr' = mgErr
                        /\ phase' = "mg_request"
                   ELSE MagnetEnds("panic") /\ UNCHANGED mgResp
    /\ UNCHANGED <<mgTorrent, mgData>>
    /\ MagnetUnchanged

\* magnetInfo 310-314
MagnetRequest ==
    /\ phase = "mg_request"
    /\ mgLog' = Append(mgLog,
                       Sent(buildMetadataRequestMessage(mgResp.peerMetadataExtensionId)))
    /\ phase' = "mg_data"
    /\ UNCHANGED <<mgTorrent, mgResp, mgData, mgErr>>
    /\ MagnetUnchanged

\* magnetInfo 317-347: dataMessage is read; payload[1:] is out of range for
\* an empty payload; the header is decoded for its length only; the rest is
\* decoded, the error dropped, and the assertions on its keys panic when it
\* is no info dictionary; else t.info is replaced
MagnetData ==
    /\ phase = "mg_data"
    /\ LET dataMessage == PeerReply(mgPeer.reply, mgPeer.metadata)
           header == decodeDictionary(SliceFrom(dataMessage.payload, 1))
           metadata == decodeDictionary(SliceFrom(dataMessage.payload, header.count + 1))
       IN  IF mgPeer.closeAt = 4
           THEN MagnetEnds("error") /\ UNCHANGED <<mgLog, mgData, mgTorrent>>
           ELSE /\ mgLog' = Append(mgLog, Received(dataMessage))
                /\ mgData' = dataMessage
                /\ IF dataMessage.payload = <<>> \/ header.err = "panic"
                   THEN MagnetEnds("panic") /\ UNCHANGED mgTorrent
                   ELSE IF header.err # ""
                   THEN MagnetEnds("error") /\ UNCHANGED mgTorrent
                   ELSE IF metadata.err # "" \/ ~InfoAssertionsOk(metadata.val.v)
                   THEN MagnetEnds("panic") /\ UNCHANGED mgTorrent
                   ELSE /\ mgTorrent' = [mgTorrent EXCEPT !.info = InfoOf(metadata.val.v)]
                        /\ MagnetEnds("")
    /\ UNCHANGED mgResp
    /\ MagnetUnchanged

NextMagnet ==
    \/ MagnetGetPeers
    \/ MagnetHandshake
    \/ MagnetBitfield
    \/ MagnetExtensionHandshake
    \/ MagnetExtensionResponse
    \/ MagnetRequest
    \/ MagnetData

SpecMagnet == InitMagnet /\ [][NextMagnet]_vars

(***************************************************************************)
(* peerHandshake and magnetHandshake, called on the torrent that           *)
(* parseTorrentFile or parseMagnetLink returned: the session is opened,    *)
(* the handshake sent and answered, the session closed at the return.      *)
(***************************************************************************)
\* What the tracker answers, whether the peer accepts the connection, the
\* step (0: our first write, 1 to 3: our first to third read) before which it
\* closes, whether its handshake has the extension bit, whether its extension
\* handshake names ut_metadata and under which id
HandshakePeers ==
    [tracker : {"peers", "error", "none"},
     dial : BOOLEAN,
     closeAt : 0..4,
     supports : BOOLEAN,
     announces : BOOLEAN,
     extId : {1, 2}]

\* The 20 bytes a peer puts as infohash into its answer
AnsweredInfoHash(ih) == IF Len(ih) = 20 THEN ih ELSE [k \in 1..20 |-> <<"ih", k>>]

\* What a call has come to: the function, the state of its session, the
\* messages sent and received in order, the values returned
HandshakeCall(fn, sk, log, peerId, extId, err) ==
    [fn |-> fn, sock |-> sk, log |-> log, peerId |-> peerId,
     peerMetadataExtensionId |-> extId, err |-> err]

HandshakeSent(supportExtensions) ==
    [supportExtensions |-> supportExtensions,
     peerId |-> RandomPeerId,
     message |-> HandshakeBytes(RandomPeerId, parsed.infoHash, supportExtensions)]

\* peerHandshake 181-198: a refused connection is returned as the error, with
\* nothing sent and nothing to close; else t.handshake sends the message and
\* reads 68 bytes, the deferred closer closes the session at every return,
\* and the last 20 bytes of the answer are returned in hexadecimal
peerHandshake ==
    /\ phase \in {"benc_parsed", "link_parsed"}
    /\ parseErr = ""
    /\ \E supportExtensions \in BOOLEAN, peer \in HandshakePeers :
        LET sent == HandshakeSent(supportExtensions)
            res == PeerHandshake(AnsweredInfoHash(parsed.infoHash), peer.supports)
        IN  CASE ~peer.dial ->
                    /\ hsCall' = HandshakeCall("peerHandshake", "none", <<>>, <<>>, 0, "error")
                    /\ phase' = "hs_failed"
                    /\ UNCHANGED hsMessage
              [] peer.dial /\ peer.closeAt = 0 ->
                    /\ hsCall' = HandshakeCall("peerHandshake", "closed", <<>>, <<>>, 0, "error")
                    /\ phase' = "hs_failed"
                    /\ UNCHANGED hsMessage
              [] peer.dial /\ peer.closeAt = 1 ->
                    /\ hsCall' = HandshakeCall("peerHandshake", "closed",
                                               <<Sent(sent.message)>>, <<>>, 0, "error")
                    /\ hsMessage' = sent
                    /\ phase' = "hs_sent"
              [] OTHER ->
                    /\ hsCall' = HandshakeCall("peerHandshake", "closed",
                                               <<Sent(sent.message), Received(res)>>,
                                               toHex(SliceFrom(res, 48)), 0, "")
                    /\ hsMessage' = sent
                    /\ phase' = "hs_sent"
    /\ UNCHANGED <<engineVars, startVars, blockVars, recvVars, bencVars, link, parsed,
                   parseErr, magnetVars, addrVars>>

\* magnetHandshake 200-258: t.peers(), peers[0] (out of range for an empty
\* list); the error of newPeerConnection is not looked at, so after a refused
\* connection conn is nil and sendBytes dereferences it; the handshake with
\* the extension bit, the next message read whatever its type; if byte 25 of
\* the answer is 16 the extension handshake is sent and the answer decoded,
\* the errors of decodeDictionary dropped, and decoded["m"].(map[string]any)
\* and mMap["ut_metadata"].(int) panic when the key is absent; the session
\* is closed at every return
magnetHandshake ==
    /\ phase \in {"benc_parsed", "link_parsed"}
    /\ parseErr = ""
    /\ \E peer \in HandshakePeers :
        LET sent == HandshakeSent(TRUE)
            res == PeerHandshake(AnsweredInfoHash(parsed.infoHash), peer.supports)
            response == PeerExtensionHandshake(peer.announces, peer.extId)
            decoded == decodeDictionary(SliceFrom(response.payload, 1))
            hs == <<Sent(sent.message), Received(res)>>
            asked == hs \o <<Received(PeerBitfield), Sent(buildExtensionHandshakeMessage)>>
            Ends(sk, log, peerId, extId, err) ==
                hsCall' = HandshakeCall("magnetHandshake", sk, log, peerId, extId, err)
        IN  CASE peer.tracker = "error" ->
                    /\ Ends("none", <<>>, <<>>, 0, "error")
                    /\ phase' = "hs_failed"
                    /\ UNCHANGED hsMessage
              [] peer.tracker = "none" ->
                    /\ Ends("none", <<>>, <<>>, 0, "panic")
                    /\ phase' = "hs_failed"
                    /\ UNCHANGED hsMessage
              [] peer.tracker = "peers" /\ ~peer.dial ->
                    /\ Ends("none", <<>>, <<>>, 0, "panic")
                    /\ phase' = "hs_failed"
                    /\ UNCHANGED hsMessage
              [] peer.tracker = "peers" /\ peer.dial /\ peer.closeAt = 0 ->
                    /\ Ends("closed", <<>>, <<>>, 0, "error")
                    /\ phase' = "hs_failed"
                    /\ UNCHANGED hsMessage
              [] OTHER ->
                    /\ hsMessage' = sent
                    /\ phase' = "hs_sent"
                    /\ CASE peer.closeAt = 1 ->
                              Ends("closed", <<Sent(sent.message)>>, <<>>, 0, "error")
                         [] peer.closeAt = 2 ->
                              Ends("closed", hs, <<>>, 0, "error")
                         [] peer.closeAt # 2 /\ res[26] # 16 ->
                              Ends("closed", Append(hs, Received(PeerBitfield)),
                                   toHex(SliceFrom(res, 48)), 0, "")
                         [] peer.closeAt = 3 /\ res[26] = 16 ->
                              Ends("closed", asked, <<>>, 0, "error")
                         [] OTHER ->
                              IF /\ decoded.err = ""
                                 /\ HasType(decoded.val.v, KeyM, "map")
                                 /\ HasType(decoded.val.v[KeyM].v, KeyUtMetadata, "int")
                              THEN Ends("closed", Append(asked, Received(response)),
                                        toHex(SliceFrom(res, 48)),
                                        decoded.val.v[KeyM].v[KeyUtMetadata].v, "")
                              ELSE Ends("closed", Append(asked, Received(response)),
                                        <<>>, 0, "panic")
    /\ UNCHANGED <<engineVars, startVars, blockVars, recvVars, bencVars, link, parsed,
                   parseErr, magnetVars, addrVars>>

NextBencode == DecodeValue \/ BencodeValue \/ ParseTorrentFile \/ peerHandshake \/ magnetHandshake

SpecBencode == InitBencode /\ [][NextBencode]_vars

NextLink == ParseMagnetLink \/ peerHandshake \/ magnetHandshake

SpecLink == InitLink /\ [][NextLink]_vars


(***************************************************************************)
(* buildPeerAddresses on its own.  The peers string of the tracker is the  *)
(* sequence of its bytes, each a number from 0 to 255; an address is text. *)
(***************************************************************************)
\* const length = 6
PeerEntryLength == 6

\* number of peers in the tracker's answer
MaxPeerEntries == 3

\* binary.LittleEndian.Uint16 in place of BigEndian
LittleEndianUint16(b) == b[1] + 256 * b[2]

\* binary.BigEndian.Uint16(b)
BigEndianUint16(b) == 256 * b[1] + b[2]

\* buildPeerAddresses 25-35: one turn of the loop, for the i-th peer from 0
PeerAddress(str, idx) ==
    LET peer == Slice(str, idx * PeerEntryLength, idx * PeerEntryLength + PeerEntryLength)
        ipSlice == Slice(peer, 0, 4)
        portSlice == SliceFrom(peer, 4)
        ip == FormatInt(ipSlice[1]) \o <<".">> \o FormatInt(ipSlice[2]) \o <<".">>
                \o FormatInt(ipSlice[3]) \o <<".">> \o FormatInt(ipSlice[4])
        port == BigEndianUint16(portSlice)
    IN  ip \o <<":">> \o FormatInt(port)

\* buildPeerAddresses
buildPeerAddresses(str) ==
    LET n == Len(str) \div PeerEntryLength
    IN  [k \in 1..n |-> PeerAddress(str, k - 1)]

\* Entries of a peers string: 10.0.0.1:6881, 192.168.1.20:80,
\* 255.255.255.255:65535, 0.0.0.0:0, 127.0.0.1:256
PeerEntries ==
    { <<10, 0, 0, 1, 26, 225>>,
      <<192, 168, 1, 20, 0, 80>>,
      <<255, 255, 255, 255, 255, 255>>,
      <<0, 0, 0, 0, 0, 0>>,
      <<127, 0, 0, 1, 1, 0>> }

\* Bytes after the last whole entry
PeerTrailers == { <<>>, <<10, 0, 0>> }

InitPeers ==
    /\ EngineIdle /\ StartIdle /\ BlocksIdle /\ RecvIdle /\ BencIdle /\ DescIdle /\ MagnetIdle
    /\ phase = "addr_input"
    /\ peersStr \in { Flatten(es) \o x : es \in SeqsUpTo(PeerEntries, MaxPeerEntries),
                                         x \in PeerTrailers }
    /\ peerAddresses = <<>>

\* peerAddresses := buildPeerAddresses(peersStr)
BuildPeerAddresses ==
    /\ phase = "addr_input"
    /\ peerAddresses' = buildPeerAddresses(peersStr)
    /\ phase' = "addr_built"
    /\ UNCHANGED <<engineVars, startVars, blockVars, recvVars, bencVars, descVars, magnetVars,
                   peersStr>>

NextPeers == BuildPeerAddresses

SpecPeers == InitPeers /\ [][NextPeers]_vars

(***************************************************************************)
(* The start of downloadFile and of downloadPieceToFile: the call of       *)
(* t.peers() and what the operation does with what it returns.             *)
(***************************************************************************)
KeyPeers == <<"p", "e", "e", "r", "s">>
KeyInterval == <<"i", "n", "t", "e", "r", "v", "a", "l">>
StatusOK == 200

\* The body of a tracker response that lists n peers, 6 bytes for each
PeersBody(n) ==
    <<"d">> \o bencodeString(KeyInterval) \o bencodeInteger(60)
            \o bencodeString(KeyPeers)
            \o bencodeString([k \in 1..(n * PeerEntryLength) |-> "a"]) \o <<"e">>

\* Bodies that are not a dictionary with a string under "peers"
BadBodies ==
    { <<>>,
      <<"d", "i", "1", "e", "1", ":", "a", "e">>,
      <<"d">> \o bencodeString(KeyInterval) \o bencodeInteger(60) \o <<"e">>,
      <<"d">> \o bencodeString(KeyPeers) \o bencodeInteger(1) \o <<"e">> }

\* What the tracker does with the request: no response at all, a status
\* other than 200, a body that breaks off, or a body
TrackerResponses ==
    { [transport |-> "fail", status |-> 0, body |-> <<>>],
      [transport |-> "ok", status |-> 500, body |-> <<>>],
      [transport |-> "cut", status |-> StatusOK, body |-> <<>>] }
    \cup { [transport |-> "ok", status |-> StatusOK, body |-> b] :
             b \in BadBodies \cup {PeersBody(0), PeersBody(NumPeers)} }

\* t.peers() 134-156. After a transport error res is nil and the deferred
\* res.Body.Close() of line 135 dereferences it; decodeDictionary returns an
\* error or panics, on an empty body at bencodedString[1:]; buildPeerAddresses
\* returns one address for every 6 bytes
peers(res) ==
    IF res.transport = "fail" THEN [err |-> "panic: nil pointer dereference", n |-> 0]
    ELSE IF res.status # StatusOK THEN [err |-> "error", n |-> 0]
    ELSE IF res.transport = "cut" THEN [err |-> "error", n |-> 0]
    ELSE IF res.body = <<>> THEN [err |-> "panic: slice bounds out of range", n |-> 0]
    ELSE LET decodedRes == decodeDictionary(res.body) IN
         IF decodedRes.err = "panic" THEN [err |-> "panic: index or slice bounds out of range", n |-> 0]
         ELSE IF decodedRes.err # "" THEN [err |-> "error", n |-> 0]
         ELSE IF ~HasType(decodedRes.val.v, KeyPeers, "string")
         THEN [err |-> "error", n |-> 0]
         ELSE [err |-> "", n |-> Len(decodedRes.val.v[KeyPeers].v) \div PeerEntryLength]

\* t.peers() did not return
PeersPanicked(r) == r.err \notin {"", "error"}

\* The torrents an operation may be started on: those of Torrents, and one
\* without pieces (a descriptor whose "pieces" is shorter than 20 bytes)
StartTorrents == Torrents \cup {TorrentOf(0, BlockSize)}

InitStartup ==
    /\ mode \in {"file", "piece"}
    /\ torrent \in IF mode = "file" THEN StartTorrents ELSE Torrents
    /\ kind = <<>>
    /\ pc = <<>> /\ address = <<>> /\ ok = <<>> /\ conn = <<>>
    /\ connections = <<>> /\ closerArr = <<>> /\ closerLen = 0 /\ clen = <<>>
    /\ sock = <<>> /\ pstate = <<>> /\ inbox = <<>> /\ rd = <<>>
    /\ plen = <<>> /\ i = <<>> /\ pieceData = <<>> /\ fileData = <<>>
    /\ wg = 0 /\ mainPc = "running"
    /\ outFile = [written |-> FALSE, data |-> <<>>]
    /\ fatal = "" /\ exited = FALSE
    /\ phase = "idle" /\ BlocksIdle /\ RecvIdle /\ BencIdle
    /\ DescIdle /\ MagnetIdle /\ AddrIdle
    /\ trackerRes \in TrackerResponses
    /\ peersRet = NoList
    /\ startPc = "peers"

\* The state in which the tasks `tasks` are about to start, with the peers of
\* the list behaving as k
StartTasks(tasks, k) ==
    /\ kind' = k
    /\ pc' = [p \in tasks |-> "start"]
    /\ address' = [p \in tasks |-> NoPeer]
    /\ ok' = [p \in tasks |-> FALSE]
    /\ conn' = [p \in tasks |-> NoSession]
    /\ connections' = [a \in DOMAIN k |-> NoSession]
    /\ closerArr' = [j \in 1..Cardinality(tasks) |-> NoSession]
    /\ closerLen' = 0
    /\ clen' = [p \in tasks |-> 0]
    /\ sock' = [p \in tasks |-> "none"]
    /\ pstate' = [p \in tasks |-> "none"]
    /\ inbox' = [p \in tasks |-> <<>>]
    /\ rd' = [p \in tasks |-> NoRead]
    /\ plen' = [p \in tasks |-> 0 - 1]
    /\ i' = [p \in tasks |-> 0]
    /\ pieceData' = [p \in tasks |-> <<>>]
    /\ fileData' = [o \in Slots(torrent) |-> Zeros]

\* The behaviours of the peers of a list of n addresses
KindsOf(n) == IF n = NumPeers THEN KindAssignments ELSE {<<>>}

\* downloadFile 490-508: `peers, _ := t.peers()` drops the error, and the
\* maps, the buffer, wg.Add(nPieces) and one task per piece follow whatever
\* was returned; a panic inside t.peers() ends the process
StartFile ==
    /\ mode = "file" /\ startPc = "peers" /\ Alive
    /\ LET r == peers(trackerRes) IN
        /\ peersRet' = r
        /\ IF PeersPanicked(r)
           THEN /\ fatal' = r.err /\ exited' = exited
                /\ UNCHANGED <<kind, pc, address, ok, conn, connections, closerArr, closerLen,
                               clen, sock, pstate, inbox, rd, plen, i, pieceData, fileData,
                               wg, mainPc>>
           ELSE /\ \E k \in KindsOf(r.n) : StartTasks(0..(torrent.nPieces - 1), k)
                /\ wg' = torrent.nPieces
                /\ mainPc' = "wait"
                /\ UNCHANGED <<fatal, exited>>
    /\ startPc' = "started"
    /\ UNCHANGED <<mode, torrent, outFile, trackerRes, phase, blockVars, recvVars, bencVars,
                   descVars, magnetVars, addrVars>>

\* downloadPieceToFile 431-438: an error of t.peers() is printed and the
\* function returns; mathRand.Intn(len(peerAddresses)) panics on an empty list
StartPiece ==
    /\ mode = "piece" /\ startPc = "peers" /\ Alive
    /\ LET r == peers(trackerRes) IN
        /\ peersRet' = r
        /\ CASE PeersPanicked(r) ->
                  /\ fatal' = r.err /\ exited' = exited
                  /\ UNCHANGED <<kind, pc, address, ok, conn, connections, closerArr,
                                 closerLen, clen, sock, pstate, inbox, rd, plen, i,
                                 pieceData, fileData, mainPc>>
             [] r.err = "error" ->
                  /\ mainPc' = "returned"
                  /\ UNCHANGED <<kind, pc, address, ok, conn, connections, closerArr,
                                 closerLen, clen, sock, pstate, inbox, rd, plen, i,
                                 pieceData, fileData, fatal, exited>>
             [] r.err = "" /\ r.n = 0 ->
                  /\ fatal' = "panic: invalid argument to Intn" /\ exited' = exited
                  /\ UNCHANGED <<kind, pc, address, ok, conn, connections, closerArr,
                                 closerLen, clen, sock, pstate, inbox, rd, plen, i,
                                 pieceData, fileData, mainPc>>
             [] OTHER ->
                  /\ \E pieceIndex \in 0..(torrent.nPieces - 1), k \in KindsOf(r.n) :
                        StartTasks({pieceIndex}, k)
                  /\ UNCHANGED <<mainPc, fatal, exited>>
    /\ startPc' = "started"
    /\ UNCHANGED <<mode, torrent, wg, outFile, trackerRes, phase, blockVars, recvVars,
                   bencVars, descVars, magnetVars, addrVars>>

\* downloadFile 509-511: peers[mathRand.Intn(len(peers))] in a piece task
\* when the list is empty: Intn panics on 0 and the deferred wg.Done() runs
PickFromNone(p) ==
    /\ mode = "file" /\ startPc = "started" /\ Alive /\ pc[p] = "start"
    /\ peersRet.n = 0
    /\ Panics(p, "panic: invalid argument to Intn")
    /\ UNCHANGED <<callVars, mode, torrent, kind, address, ok, conn, connections,
                   closerArr, closerLen, clen, pstate, inbox, rd, plen, i,
                   pieceData, fileData, mainPc, outFile>>

NextStartup ==
    \/ StartFile
    \/ StartPiece
    \/ \E p \in Tasks : PickFromNone(p)
    \/ WaitCommit
    \/ Exit

\* downloadFile and downloadPieceToFile from their first line, on every
\* response of the tracker, up to the state the tasks start in
SpecStartup == InitStartup /\ [][NextStartup]_vars

(***************************************************************************)
(* downloadFile with peers that all answer as the protocol says, under a   *)
(* scheduler that lets every goroutine that can take a step take it.       *)
(***************************************************************************)
InitCooperative ==
    /\ InitFile
    /\ \A a \in Peers : kind[a] = "good"
    /\ CallsIdle

\* The next step of the piece task p
TaskStep(p) ==
    /\ p \in Tasks
    /\ \/ Lookup(p) \/ Dial(p) \/ Insert(p) \/ CloserRead(p) \/ CloserWrite(p)
       \/ HandshakeSend(p) \/ HandshakeRecv(p) \/ RecvBitfield(p) \/ SendInterested(p)
       \/ RecvUnchoke(p) \/ SendRequest(p) \/ RecvPiece(p) \/ VerifyCopy(p)

NextCooperative ==
    \/ \E p \in Tasks : Lookup(p)
    \/ \E p \in Tasks : Dial(p)
    \/ \E p \in Tasks : Insert(p)
    \/ MapRaceFatal
    \/ \E p \in Tasks : CloserRead(p)
    \/ \E p \in Tasks : CloserWrite(p)
    \/ \E p \in Tasks : HandshakeSend(p)
    \/ \E p \in Tasks : HandshakeRecv(p)
    \/ \E p \in Tasks : RecvBitfield(p)
    \/ \E p \in Tasks : SendInterested(p)
    \/ \E p \in Tasks : RecvUnchoke(p)
    \/ \E p \in Tasks : SendRequest(p)
    \/ \E p \in Tasks : RecvPiece(p)
    \/ \E p \in Tasks : VerifyCopy(p)
    \/ WaitCommit
    \/ Exit

\* The piece indexes of the torrents of Torrents
PieceIndexes == UNION { 0..(tor.nPieces - 1) : tor \in Torrents }

\* The Go scheduler runs every goroutine that stays runnable: a task whose
\* next step is possible takes it, and so does the goroutine in wg.Wait once
\* the count is zero. A goroutine in a Read with nothing to read is not
\* runnable, and the runtime need not detect a racing map access
SpecCooperative ==
    /\ InitCooperative
    /\ [][NextCooperative]_vars
    /\ \A p \in PieceIndexes : WF_vars(TaskStep(p))
    /\ WF_vars(WaitCommit)
    /\ WF_vars(Exit)

(***************************************************************************)
(* Notions the properties below are stated in.                             *)
(***************************************************************************)
\* Positions at which the next step of a task writes to or reads from its
\* session, and those at which that is a framed message
IoPcs == {"hs_send", "hs_recv", "bitfield", "interested", "unchoke", "request", "piece"}
FramedPcs == {"bitfield", "interested", "unchoke", "request", "piece"}

\* The task that opened session s has had the 68 bytes of the peer's
\* handshake: it is past t.handshake and the peer answered it
HandshakeDone(s) ==
    /\ pc[s] \in (FramedPcs \cup {"verify", "done", "panicked"})
    /\ pstate[s] \in {"choking", "unchoked"}

\* The task that opened session s has received BITFIELD, sent INTERESTED and
\* received UNCHOKE on it
PreambleDone(s) == ~ok[s] /\ conn[s] = s /\ plen[s] # 0 - 1

\* The content of the block slots of piece p in an output buffer
PieceAt(file, tor, p) ==
    [k \in DOMAIN TruePiece(tor, p) |-> file[TruePiece(tor, p)[k][1]]]

\* Some byte of piece p's slice of fileData has been written
RegionWritten(p) ==
    \E k \in DOMAIN TruePiece(torrent, p) : fileData[TruePiece(torrent, p)[k][1]] # Zeros

AllGood == \A a \in Peers : kind[a] = "good"

\* The blocks getPieceFromPeer requests for piece p, answered correctly
RequestedPiece(tor, p) ==
    [k \in 1..NBlocks(PieceLengthFor(tor, p)) |->
        << p * tor.pieceLength + (k - 1) * BlockSize,
           BlockLength(PieceLengthFor(tor, p), k - 1) >>]

\* What downloadFile writes when the piece tasks run one after the other
\* and every REQUEST is answered with the correct block
SerialOutput(tor) ==
    [o \in Slots(tor) |->
        IF \E p \in 0..(tor.nPieces - 1) :
              /\ SHA1(RequestedPiece(tor, p)) = PieceHash(tor, p)
              /\ \E k \in DOMAIN RequestedPiece(tor, p) : RequestedPiece(tor, p)[k][1] = o
        THEN LET p == CHOOSE q \in 0..(tor.nPieces - 1) :
                        \E k \in DOMAIN TruePiece(tor, q) : TruePiece(tor, q)[k][1] = o
             IN  TruePiece(tor, p)[CHOOSE k \in DOMAIN TruePiece(tor, p) :
                                        TruePiece(tor, p)[k][1] = o]
        ELSE Zeros]

(***************************************************************************)
(* C1. In downloadFile a peer session is used by one piece task at a time: *)
(* at most one REQUEST is outstanding on a session, and while a task waits *)
(* for the PIECE of its REQUEST no other task sends or receives on that    *)
(* session.                                                                *)
(***************************************************************************)
C1_OneRequestOutstanding ==
    \A s \in Sessions : Cardinality({p \in Tasks : conn[p] = s /\ pc[p] = "piece"}) <= 1

C1_NoForeignIo ==
    \A p \in Tasks, q \in Tasks :
        (p # q /\ conn[p] # NoSession /\ conn[p] = conn[q]
              /\ pc[p] = "piece" /\ pc[q] \in IoPcs)
        => pc'[q] = pc[q]

C1_SessionUsedByOneTask == []C1_OneRequestOutstanding /\ [][C1_NoForeignIo]_vars

(***************************************************************************)
(* C2. On every session downloadFile uses, the preamble (BITFIELD received,*)
(* INTERESTED sent, UNCHOKE received) has completed before a REQUEST is    *)
(* sent on it; it is performed by the task that missed in the connections  *)
(* map only, and a task that hit the map skips it.                         *)
(***************************************************************************)
C2_PreambleBeforeRequest ==
    \A p \in Tasks :
        /\ (mode = "file" /\ pc[p] = "piece") => PreambleDone(conn[p])
        /\ (mode = "file" /\ pc[p] \in {"bitfield", "interested", "unchoke"}) => ~ok[p]

(***************************************************************************)
(* C3. downloadFile writes the output file only when every piece task      *)
(* succeeded: in every output written, each piece p has                    *)
(* SHA-1(piece p) = piece_hashes[p].                                       *)
(***************************************************************************)
C3_CommitOnlyVerified ==
    (mode = "file" /\ outFile.written) =>
        \A p \in Tasks : SHA1(PieceAt(outFile.data, torrent, p)) = PieceHash(torrent, p)

(***************************************************************************)
(* C4. With peers that answer every REQUEST with the correct block, what   *)
(* downloadFile writes to the output is the same in every interleaving and *)
(* for every choice of peers: it is what the tasks write when they run one *)
(* after the other.                                                        *)
(***************************************************************************)
C4_OutputDeterministic ==
    (mode = "file" /\ AllGood /\ outFile.written) => outFile.data = SerialOutput(torrent)

(***************************************************************************)
(* C5. The lookup and insert on connections are atomic across piece tasks: *)
(* for an endpoint at most one task sees a miss, at most one session is    *)
(* opened, and no write of the map is concurrent with another access.      *)
(***************************************************************************)
C5_LookupInsertAtomic ==
    mode = "file" =>
        /\ \A a \in Peers :
            /\ Cardinality({p \in Tasks : pc[p] # "start" /\ address[p] = a /\ ~ok[p]}) <= 1
            /\ Cardinality({s \in Sessions : sock[s] # "none" /\ address[s] = a}) <= 1
        /\ ~MapAccessesRace

(***************************************************************************)
(* C6. Every session opened is closed when the operation has returned, no  *)
(* closer is lost from closerFuncs, and a failed dial leads to no use and  *)
(* no close of a nil connection.                                           *)
(***************************************************************************)
C6_SessionsClosed ==
    /\ mainPc = "returned" => \A s \in Sessions : sock[s] # "open"
    /\ \A p \in Tasks : pc[p] \in IoPcs => conn[p] # NoSession
    /\ fatal # "panic: nil pointer dereference"

(***************************************************************************)
(* C7. A task sends or receives framed messages on a session only when the *)
(* dial and the 68-byte handshake on it completed successfully; after a    *)
(* failed dial or handshake the task does not go on.                       *)
(***************************************************************************)
C7_FramedOnlyAfterHandshake ==
    \A p \in Tasks :
        pc[p] \in FramedPcs => (conn[p] # NoSession /\ HandshakeDone(conn[p]))

(***************************************************************************)
(* C8. getPieceFromPeer appends a block to the piece buffer only when the  *)
(* PIECE received carries the index and begin of the REQUEST just sent and *)
(* a payload of at least 8 bytes; any other PIECE fails the piece (the     *)
(* buffer is not extended and the process does not stop).                  *)
(***************************************************************************)
ReceivedBy(p) == peerMessage(ReadInto(Reading(p, "len", 4), conn[p]).buf)

C8_AppendChecked ==
    \A p \in Tasks :
        /\ Len(pieceData'[p]) > Len(pieceData[p]) =>
              LET m == ReceivedBy(p)
              IN  /\ m.mType = PIECE
                  /\ PieceIndexOf(m) = p
                  /\ PieceBeginOf(m) = i[p] * BlockSize
                  /\ m.paylen >= PieceHeaderLength
        /\ ~(pc[p] = "piece" /\ rd[p].stage = "body" /\ pc'[p] = "panicked")

C8_PieceValidated == [][C8_AppendChecked]_vars

(***************************************************************************)
(* C9. A piece's bytes reach the output (fileData in downloadFile, the     *)
(* output file in downloadPieceToFile) only when the task has assembled    *)
(* them and their SHA-1 equals piece_hashes[index]; a piece whose hash     *)
(* differs leaves its part of the output unwritten.                        *)
(***************************************************************************)
C9_WrittenOnlyVerified ==
    \A p \in Tasks :
        /\ (mode = "file" /\ RegionWritten(p)) =>
              /\ pc[p] = "done"
              /\ PieceAt(fileData, torrent, p) = pieceData[p]
              /\ SHA1(pieceData[p]) = PieceHash(torrent, p)
        /\ (mode = "piece" /\ outFile.written) =>
              /\ pc[p] = "done"
              /\ outFile.data = pieceData[p]
              /\ SHA1(pieceData[p]) = PieceHash(torrent, p)

\* One piece is in fileData while a task that assembled a piece of another
\* hash has returned and left its slice unwritten
C9_Witness ==
    /\ mode = "file"
    /\ \E p \in Tasks, q \in Tasks :
        /\ RegionWritten(p)
        /\ pc[q] = "done" /\ pieceData[q] # <<>>
        /\ SHA1(pieceData[q]) # PieceHash(torrent, q)
        /\ ~RegionWritten(q)

(***************************************************************************)
(* C10. The length getPieceFromPeer requests for piece p is piece_length   *)
(* for p < piece_count - 1 and total_length - (piece_count-1)*piece_length *)
(* for the last piece, which is in (0, piece_length].                      *)
(***************************************************************************)
C10_PieceLength ==
    \A p \in Tasks :
        plen[p] # 0 - 1 =>
            /\ plen[p] = IF p < torrent.nPieces - 1
                         THEN torrent.pieceLength
                         ELSE torrent.length - (torrent.nPieces - 1) * torrent.pieceLength
            /\ 0 < plen[p] /\ plen[p] <= torrent.pieceLength

(***************************************************************************)
(* C11. For a piece length L > 0 getPieceFromPeer sends exactly            *)
(* ceil(L/16384) REQUESTs, with begin 0, 16384, 2*16384, ... in this       *)
(* order; every length requested is in (0, 16384], only the last may be    *)
(* less than 16384, and the lengths add up to L.                           *)
(***************************************************************************)
RECURSIVE SumRequested(_, _)
SumRequested(reqs, n) == IF n = 0 THEN 0 ELSE SumRequested(reqs, n - 1) + reqs[n].length

C11_BlockSplitting ==
    (phase = "blocks_returned" /\ blkPieceLength > 0) =>
        LET n == Len(blkRequests) IN
        /\ (n - 1) * 16384 < blkPieceLength /\ blkPieceLength <= n * 16384
        /\ \A k \in 1..n :
            /\ blkRequests[k].mType = REQUEST
            /\ blkRequests[k].index = blkPieceIndex
            /\ blkRequests[k].begin = (k - 1) * 16384
            /\ 0 < blkRequests[k].length /\ blkRequests[k].length <= 16384
            /\ k < n => blkRequests[k].length = 16384
        /\ SumRequested(blkRequests, n) = blkPieceLength

\* The loop has returned after several REQUESTs, the last for less than a
\* full block
C11_Witness ==
    /\ phase = "blocks_returned"
    /\ Len(blkRequests) >= 2
    /\ blkRequests[Len(blkRequests)].length < 16384
    /\ blkRequests[1].length = 16384

(***************************************************************************)
(* C12. In downloadFile the task of piece p writes only the bytes          *)
(* [p*piece_length, p*piece_length + len(piece p)) of the output buffer    *)
(* and leaves every other byte as it was, so no byte is written by two     *)
(* tasks; and in a completed download (every piece task has verified and   *)
(* copied its piece, and the file is written) byte i of the output is byte *)
(* i % piece_length of the buffer of piece i / piece_length.               *)
(***************************************************************************)
\* A byte of fileData changes only in the step in which the task that owns
\* it copies its piece
C12_OwnSliceOnly ==
    \A o \in DOMAIN fileData :
        fileData'[o] # fileData[o] =>
            \E p \in Tasks :
                /\ pc[p] = "verify" /\ pc'[p] = "done"
                /\ p * torrent.pieceLength <= o
                /\ o < p * torrent.pieceLength + TruePieceLen(torrent, p)
                /\ \A q \in Tasks \ {p} : pc'[q] = pc[q]

PieceSucceeded(p) ==
    pc[p] = "done" /\ SHA1(pieceData[p]) = PieceHash(torrent, p)

C12_CompletedOutput ==
    (mode = "file" /\ outFile.written /\ \A p \in Tasks : PieceSucceeded(p)) =>
        /\ DOMAIN outFile.data = Slots(torrent)
        /\ \A o \in DOMAIN outFile.data :
              outFile.data[o] =
                  pieceData[o \div torrent.pieceLength]
                           [((o % torrent.pieceLength) \div 16384) + 1]

C12_DisjointWrites == []C12_CompletedOutput /\ [][C12_OwnSliceOnly]_vars

\* A download of two pieces has completed
C12_Witness ==
    /\ mode = "file" /\ outFile.written
    /\ Cardinality(Tasks) = 2
    /\ \A p \in Tasks : PieceSucceeded(p) /\ RegionWritten(p)

(***************************************************************************)
(* C13. downloadFile writes the output file only after every one of the   *)
(* piece tasks has terminated, successfully or not; no task writes into    *)
(* the buffer once the commit has started.                                 *)
(***************************************************************************)
C13_AllTerminated ==
    (mode = "file" /\ (mainPc = "returned" \/ outFile.written)) =>
        \A p \in Tasks : pc[p] \in {"done", "panicked"}

C13_NoLateWrite ==
    (mode = "file" /\ mainPc = "returned") => (fileData' = fileData /\ pc' = pc)

C13_CommitAfterAllTasks == []C13_AllTerminated /\ [][C13_NoLateWrite]_vars

\* The file has been written after one task copied its piece and the other
\* failed
C13_Witness ==
    /\ mode = "file" /\ outFile.written /\ mainPc = "returned"
    /\ \E p \in Tasks, q \in Tasks :
        /\ RegionWritten(p)
        /\ pc[q] = "done" /\ ~PieceSucceeded(q)

(***************************************************************************)
(* C14. receivePeerMessage tolerates a keep-alive: on a length prefix of 0 *)
(* it reads no type byte, does not fail, reads the next length prefix and  *)
(* returns the next message that is not a keep-alive.                      *)
(***************************************************************************)
RECURSIVE DropKeepAlives(_)
DropKeepAlives(fs) ==
    IF fs # <<>> /\ Head(fs).length = 0 THEN DropKeepAlives(Tail(fs)) ELSE fs

C14_KeepAliveStep ==
    (phase = "recv_call" /\ rcvStream # <<>> /\ Head(rcvStream).length = 0) =>
        LET rest == DropKeepAlives(rcvStream) IN
        IF rest = <<>>
        THEN rcvErr' = "EOF"
        ELSE /\ rcvErr' = ""
             /\ rcvMsg'.mType = Head(rest).body[1]
             /\ rcvMsg'.payload = Tail(Head(rest).body)
             /\ rcvStream' = Tail(rest)

C14_KeepAliveTolerated == [][C14_KeepAliveStep]_vars

(***************************************************************************)
(* C15. For every well-formed bencoded input b whose dictionaries have     *)
(* their keys in lexicographic order, bencodeValue(decodeValue(b)) = b.    *)
(***************************************************************************)
C15_RoundTrip ==
    (phase = "benc_encoded" /\ bencInput \in WellFormedSorted) => bencOutput = bencInput

(***************************************************************************)
(* C16. bencodeList(l) is "l", then bencodeValue(e) for each element e of  *)
(* l in the order of l, then "e"; the empty list gives "le".               *)
(***************************************************************************)
C16_ListEncoding ==
    (phase = "benc_encoded" /\ bencDecoded.val.t = "list") =>
        LET l == bencDecoded.val.v IN
        bencOutput = <<"l">> \o Flatten([k \in 1..Len(l) |-> bencodeValue(l[k])]) \o <<"e">>

(***************************************************************************)
(* C17. bencodeMap writes "d", then for each key, once, the encoded key    *)
(* followed by the encoded value, the keys in strictly ascending           *)
(* lexicographic byte order whatever order the map is iterated in, then    *)
(* "e"; the empty map gives "de".                                          *)
(***************************************************************************)
C17_MapEncoding ==
    (phase = "benc_encoded" /\ bencDecoded.val.t = "map") =>
        LET m == bencDecoded.val.v
            n == Cardinality(DOMAIN m)
        IN  \E ks \in [1..n -> DOMAIN m] :
                /\ \A j \in 1..(n - 1) : LexLess(ks[j], ks[j + 1])
                /\ \A key \in DOMAIN m : Cardinality({j \in 1..n : ks[j] = key}) = 1
                /\ bencOutput =
                     <<"d">> \o Flatten([j \in 1..n |->
                                  bencodeString(ks[j]) \o bencodeValue(m[ks[j]])])
                             \o <<"e">>
                /\ (n = 0 => bencOutput = <<"d", "e">>)

\* A map of two keys that range yielded largest first has been encoded
C17_Witness ==
    /\ phase = "benc_encoded"
    /\ bencDecoded.val.t = "map"
    /\ Cardinality(DOMAIN bencDecoded.val.v) = 2
    /\ bencOrder = "descending"
    /\ LexLess(MapRange(bencDecoded.val.v)[2], MapRange(bencDecoded.val.v)[1])

(***************************************************************************)
(* C18. The infohash parseTorrentFile produces is the SHA-1 of the exact   *)
(* bytes of the info dictionary in the file: what infoHash encodes again   *)
(* from the decoded map is byte for byte the source slice, also when info  *)
(* holds lists, extra keys or keys that are not in sorted order.           *)
(***************************************************************************)
C18_InfoHashOfSource ==
    phase = "benc_parsed" =>
        \A x \in InfoSources : bencInput = TorrentFileOf(x) => bencInfoHash = SHA1(x)

(***************************************************************************)
(* C19. On an input that begins with a well-formed bencoded value,         *)
(* decodeValue returns as count the exact length of that value's encoding, *)
(* so the rest of the input begins at offset count.                        *)
(***************************************************************************)
IsPrefix(w, b) == Len(w) <= Len(b) /\ SubSeq(b, 1, Len(w)) = w

C19_BytesConsumed ==
    (phase \in {"benc_decoded", "benc_encoded"}) =>
        \A w \in WellFormed \cup TorrentFiles :
            IsPrefix(w, bencInput) =>
                /\ bencDecoded.err = ""
                /\ bencDecoded.count = Len(w)
                /\ \E x \in Suffixes : SliceFrom(bencInput, bencDecoded.count) = x

\* A list inside a dictionary, followed by more input, has been decoded
C19_Witness ==
    /\ phase = "benc_decoded"
    /\ bencDecoded.err = ""
    /\ bencDecoded.val.t = "map"
    /\ \E key \in DOMAIN bencDecoded.val.v :
          /\ bencDecoded.val.v[key].t = "list"
          /\ bencDecoded.val.v[key].v # <<>>
    /\ bencDecoded.count < Len(bencInput)

(***************************************************************************)
(* C20. decodeValue on an input whose first byte is neither a digit nor    *)
(* 'i', 'l' or 'd' fails with an error value: it returns no value and does *)
(* not crash.                                                              *)
(***************************************************************************)
C20_OtherLeadingByte ==
    (/\ phase = "benc_decoded"
     /\ bencInput # <<>>
     /\ ~IsDigit(bencInput[1])
     /\ bencInput[1] \notin {"i", "l", "d"}) => bencDecoded.err = "error"

(***************************************************************************)
(* C21. decodeValue is total on malformed input: on the empty input, a     *)
(* string shorter than its declared length, a list or dictionary with no   *)
(* closing 'e', a string length that is no number, an integer with no 'e'  *)
(* or with a body that is no number, and a dictionary whose key is no      *)
(* string, it returns an error, never a value and never a crash.           *)
(***************************************************************************)
MalformedByKind ==
    { <<>>,
      <<"5", ":", "a", "b">>,
      <<"l">>,
      <<"l", "1", ":", "a">>,
      <<"d", "1", ":", "a">>,
      <<"x", ":">>,
      <<"i", "1", "2">>,
      <<"i", "e">>,
      <<"i", "x", "e">>,
      <<"d", "i", "1", "e", "1", ":", "a", "e">> }

C21_TotalOnMalformed ==
    (phase = "benc_decoded" /\ bencInput \in MalformedByKind) =>
        bencDecoded.err = "error"

(***************************************************************************)
(* Notions for magnetInfo.                                                 *)
(***************************************************************************)
\* The header dictionary of an extension message, and the bytes after it
HeaderOf(msg) == decodeDictionary(SliceFrom(msg.payload, 1))
MetadataBytes(msg) == SliceFrom(msg.payload, HeaderOf(msg).count + 1)

\* msg is a ut_metadata data message for piece 0 with metadata after the
\* header
IsMetadataPieceZero(msg) ==
    /\ msg.mType = EXTENSION_MESSAGE
    /\ msg.payload # <<>>
    /\ HeaderOf(msg).err = ""
    /\ HasType(HeaderOf(msg).val.v, KeyMsgType, "int")
    /\ HeaderOf(msg).val.v[KeyMsgType].v = METADATA_EXTENSTION_DATA
    /\ HasType(HeaderOf(msg).val.v, KeyPiece, "int")
    /\ HeaderOf(msg).val.v[KeyPiece].v = 0
    /\ MetadataBytes(msg) # <<>>

\* magnetInfo has read the answer to its metadata request
ReplyReceived == phase = "mg_done" /\ Len(mgLog) = 7

(***************************************************************************)
(* C22. magnetInfo stores metadata in the torrent only after it has        *)
(* checked that the SHA-1 of the metadata bytes is the infohash of the     *)
(* link; when they differ it fails with an error and leaves info as it     *)
(* was.                                                                    *)
(***************************************************************************)
C22_MetadataVerified ==
    /\ (mgTorrent.info # mgLink.info) =>
            DigestBytes(SHA1(MetadataBytes(mgData))) = mgTorrent.infoHash
    /\ (/\ ReplyReceived
        /\ IsMetadataPieceZero(mgData)
        /\ DigestBytes(SHA1(MetadataBytes(mgData))) # mgLink.infoHash) =>
            (mgErr = "error" /\ mgTorrent.info = mgLink.info)

(***************************************************************************)
(* C23. Whenever magnetInfo returns without an error the torrent has its   *)
(* piece hashes, piece length and total length; when byte 25 of the peer's *)
(* handshake is not 0x10 magnetInfo fails with an error.                   *)
(***************************************************************************)
C23_InfoPresentOnSuccess ==
    (phase = "mg_done" /\ mgErr = "") =>
        /\ mgTorrent.info.pieces # <<>>
        /\ mgTorrent.info.pieceLength > 0
        /\ mgTorrent.info.length > 0
        /\ mgResp.handshakeResponse[26] = 16

(***************************************************************************)
(* C24. The answer to the metadata request is taken as metadata only if it *)
(* is an extension message whose header has msg_type 1 and piece 0; on any *)
(* other answer (a reject, a header with no metadata after it, a message   *)
(* of another type) magnetInfo fails with an error and leaves the torrent  *)
(* as it was.                                                              *)
(***************************************************************************)
C24_OnlyDataPieceZero ==
    /\ (mgTorrent.info # mgLink.info) => IsMetadataPieceZero(mgData)
    /\ (ReplyReceived /\ ~IsMetadataPieceZero(mgData)) =>
            (mgErr = "error" /\ mgTorrent = mgLink)

(***************************************************************************)
(* C25. magnetInfo sets the name from the metadata only if the torrent had *)
(* none: a name taken from the dn parameter of the link stays, and so do   *)
(* announce and the infohash.                                              *)
(***************************************************************************)
C25_NameKept ==
    /\ mgTorrent.announce = mgLink.announce
    /\ mgTorrent.infoHash = mgLink.infoHash
    /\ (mgLink.info.name # <<>>) => mgTorrent.info.name = mgLink.info.name

(***************************************************************************)
(* C26. magnetInfo exchanges its messages in this order, each after the    *)
(* one before it has completed: the handshake with the extension bit set   *)
(* is sent and answered, the peer's first message (its BITFIELD) is read,  *)
(* the extension handshake (extended id 0) is sent, the peer's extension   *)
(* handshake is read, the metadata request is sent under the id the peer   *)
(* announced for ut_metadata, and the answer is read.                      *)
(***************************************************************************)
C26_MessageOrder ==
    LET n == Len(mgLog)
        at(k) == mgLog[k]
    IN  /\ n <= 7
        /\ n >= 1 => /\ at(1).op = "send"
                     /\ at(1).msg = HandshakeBytes(RandomPeerId, mgLink.infoHash, TRUE)
                     /\ at(1).msg[26] = 16
        /\ n >= 2 => /\ at(2).op = "recv"
                     /\ Len(at(2).msg) = HANDSHAKE_MESSAGE_LENGTH
        /\ n >= 3 => /\ at(3).op = "recv"
                     /\ at(3).msg.mType = BITFIELD
        /\ n >= 4 => /\ at(4).op = "send"
                     /\ at(4).msg.mType = EXTENSION_MESSAGE
                     /\ at(4).msg.payload[1] = 0
        /\ n >= 5 => /\ at(5).op = "recv"
                     /\ at(5).msg = PeerExtensionHandshake(mgPeer.announces, mgPeer.extId)
        /\ n >= 6 => /\ at(6).op = "send"
                     /\ at(6).msg.mType = EXTENSION_MESSAGE
                     /\ at(6).msg.payload[1] = mgPeer.extId
                     /\ HeaderOf(at(6).msg).err = ""
                     /\ HeaderOf(at(6).msg).val.v =
                            (KeyMsgType :> IntVal(METADATA_EXTENSTION_REQUEST)
                             @@ KeyPiece :> IntVal(0))
        /\ n >= 7 => /\ at(7).op = "recv"
                     /\ at(7).msg = PeerReply(mgPeer.reply, mgPeer.metadata)
        /\ (phase = "mg_bitfield") => n = 2
        /\ (phase = "mg_ext_send") => n = 3
        /\ (phase = "mg_ext_recv") => n = 4
        /\ (phase = "mg_request") => n = 5
        /\ (phase = "mg_data") => n = 6

\* The whole exchange has taken place with a peer that announced id 2, and
\* the metadata is in the torrent
C26_Witness ==
    /\ ReplyReceived
    /\ mgPeer.extId = 2
    /\ mgErr = ""
    /\ mgTorrent.info.pieces # <<>>

(***************************************************************************)
(* C27. parseMagnetLink yields a torrent only when the link has an xt      *)
(* parameter that begins with urn:btih: and goes on with exactly 40 hex    *)
(* digits, the infohash being their 20 bytes; on any other link it returns *)
(* an error.                                                               *)
(***************************************************************************)
ValidXt(xt) ==
    /\ Len(xt) = 49
    /\ SubSeq(xt, 1, 9) = UrnBtih
    /\ \A k \in 10..49 : IsHex(xt[k])

C27_LinkValidated ==
    (phase \in {"link_parsed", "link_failed"}) =>
        IF ~link.err /\ ValidXt(Get(link.queryParameters, "xt"))
        THEN parseErr = "" /\ Len(parsed.infoHash) = 20
        ELSE parseErr = "error"

(***************************************************************************)
(* C28. Every torrent parseTorrentFile returns has                         *)
(* (nPieces - 1) * pieceLength < length <= nPieces * pieceLength, from a   *)
(* pieces string whose length is a multiple of 20; a file that breaks this *)
(* or lacks a required key is rejected with an error.                      *)
(***************************************************************************)
PiecesString == bencDecoded.val.v[KeyInfo].v[KeyPieces].v

C28_DescriptorInvariant ==
    /\ (parsed # NoTorrent) =>
            /\ (parsed.info.nPieces - 1) * parsed.info.pieceLength < parsed.info.length
            /\ parsed.info.length <= parsed.info.nPieces * parsed.info.pieceLength
            /\ Len(PiecesString) % 20 = 0
    /\ (phase = "benc_failed") => parseErr = "error"

(***************************************************************************)
(* C29. The handshake sent for a torrent that parseTorrentFile or          *)
(* parseMagnetLink returned is exactly 68 bytes: 0x13, "BitTorrent         *)
(* protocol", 8 reserved bytes that are zero but for index 5, which is     *)
(* 0x10 exactly when extensions are supported, the 20 bytes of the         *)
(* infohash, the 20 bytes of the peer id.                                  *)
(***************************************************************************)
C29_HandshakeLayout ==
    (phase = "hs_sent") =>
        LET m == hsMessage.message IN
        /\ Len(m) = HANDSHAKE_MESSAGE_LENGTH
        /\ m[1] = 19
        /\ SubSeq(m, 2, 20) = ProtocolString
        /\ \A k \in 0..7 :
              m[21 + k] = (IF k = 5 /\ hsMessage.supportExtensions THEN 16 ELSE 0)
        /\ Len(parsed.infoHash) = 20
        /\ SubSeq(m, 29, 48) = parsed.infoHash
        /\ SubSeq(m, 49, 68) = hsMessage.peerId

(***************************************************************************)
(* C30. For a peers string whose length is a multiple of 6                 *)
(* buildPeerAddresses returns len / 6 addresses, in the order of the       *)
(* string and with duplicates kept; the i-th is the first four bytes of    *)
(* the i-th group in decimal with dots between them, a colon, and the      *)
(* last two bytes read as a big-endian 16-bit number.                      *)
(***************************************************************************)
C30_PeerAddresses ==
    (phase = "addr_built" /\ Len(peersStr) % 6 = 0) =>
        /\ Len(peerAddresses) = Len(peersStr) \div 6
        /\ \A k \in 1..Len(peerAddresses) :
              LET b(j) == peersStr[6 * (k - 1) + j] IN
              peerAddresses[k] =
                  FormatNat(b(1)) \o <<".">> \o FormatNat(b(2)) \o <<".">>
                      \o FormatNat(b(3)) \o <<".">> \o FormatNat(b(4)) \o <<":">>
                      \o FormatNat(256 * b(5) + b(6))

\* Three addresses were built, the first two of them the same
\* 10.0.0.1:6881
C30_Witness ==
    /\ phase = "addr_built"
    /\ Len(peersStr) = 18
    /\ Len(peerAddresses) = 3
    /\ peerAddresses[1] = peerAddresses[2]
    /\ peerAddresses[1] =
          <<"1", "0", ".", "0", ".", "0", ".", "1", ":", "6", "8", "8", "1">>
    /\ peerAddresses[3] # peerAddresses[1]


\* t.peers() failed, or returned an empty list
TrackerFailed == startPc = "started" /\ (peersRet.err # "" \/ peersRet.n = 0)

\* C31: when the tracker fetch fails (transport error, status other than
\* 200, malformed body) or returns an empty peer list, downloadFile and
\* downloadPieceToFile abort: no piece task is started, no peer session is
\* opened and no output file is written
C31_AbortOnTrackerFailure ==
    TrackerFailed =>
        /\ Tasks = {}
        /\ \A s \in Sessions : sock[s] = "none"
        /\ ~outFile.written

\* The payload of the PIECE that task p's peer sends for the REQUEST of
\* block k of piece p
BlockPayload(p, k) ==
    LET m == PieceMsg(kind[address[p]], torrent,
                      buildRequestMessage(p, k * BlockSize, BlockLength(plen[p], k)))
    IN  <<m.off, m.paylen - PieceHeaderLength>>

\* C32: within a getPieceFromPeer call the REQUEST of block i+1 is sent only
\* after the PIECE of block i has been received, the payloads are appended in
\* ascending begin order, and on successful return the buffer is the
\* concatenation of the payloads of blocks 0..n-1
C32_BlocksInOrder ==
    \A p \in Tasks :
        /\ pc[p] \in {"request", "piece"} => Len(pieceData[p]) = i[p]
        /\ \A k \in 1..Len(pieceData[p]) : pieceData[p][k] = BlockPayload(p, k - 1)
        /\ (mode = "file" /\ pc[p] = "verify") => Len(pieceData[p]) = NBlocks(plen[p])

\* The piece tasks of downloadFile whose deferred wg.Done() has not run
Running == {p \in Tasks : pc[p] \notin {"done", "panicked"}}

\* The WaitGroup counts the tasks that have not returned, so that wg.Wait()
\* returns once every task has, whether it failed or not, for as long as
\* the process runs (a panic in a task, as in C8 and C14, ends the process)
C33_WaitGroupCounts ==
    mode = "file" =>
        /\ wg = Cardinality(Running)
        /\ (Running = {} /\ mainPc = "wait" /\ Alive) => ENABLED WaitCommit

\* A step in which a piece task returns ends that task alone: one count is
\* taken from the WaitGroup, no other task moves or returns, no session is
\* closed and downloadFile stays at the wait
C33_OnlyThatTaskReturns ==
    \A p \in Tasks :
        (mode = "file" /\ pc[p] # "done" /\ pc'[p] = "done") =>
            /\ wg' = wg - 1
            /\ \A q \in Tasks \ {p} : pc'[q] = pc[q]
            /\ sock' = sock
            /\ mainPc' = mainPc /\ fatal' = fatal

\* Task p of downloadFile has returned on an error: a refused dial (517-520),
\* an error of getPieceFromPeer (539-542) or a hash mismatch (552-555)
ReturnedOnError(p) == mode = "file" /\ pc[p] = "done" /\ ~PieceSucceeded(p)

\* Once a task has returned on an error, every task comes to its return, the
\* WaitGroup comes to zero and downloadFile leaves wg.Wait(). The runs in
\* which the runtime stops the process on a racing access to connections
\* (C5) are left aside
C33_SiblingsComplete ==
    (\E p \in Tasks : ReturnedOnError(p)) ~>
        (\/ mainPc = "returned" /\ wg = 0 /\ \A q \in Tasks : pc[q] = "done"
         \/ fatal = "fatal error: concurrent map access")

\* C33: a fatal error in one piece task of downloadFile makes only that task
\* return: the sibling tasks are not cancelled and run to their own
\* completion, the wait-group count still reaches zero, and downloadFile
\* proceeds past the wait
C33_ErrorIsolated ==
    /\ []C33_WaitGroupCounts
    /\ [][C33_OnlyThatTaskReturns]_vars
    /\ C33_SiblingsComplete

\* C34: with peers that accept the connection, answer the handshake, send
\* one BITFIELD, answer INTERESTED with UNCHOKE and every REQUEST received
\* after it with one PIECE, under fair scheduling every piece task of
\* downloadFile eventually terminates and downloadFile returns: no task
\* blocks forever on a receive. The runs in which the runtime stops the
\* process on a racing access to connections (C5) are left aside
C34_DownloadReturns ==
    <>(\/ mainPc = "returned" /\ \A p \in Tasks : pc[p] = "done"
       \/ fatal = "fatal error: concurrent map access")

====
